---------------------------- MODULE Spec2Model ----------------------------
(***************************************************************************)
(* Cavernborn: chunked falling-sand world.  Particle model, Chunk, Map,    *)
(* the fluid simulator and the cross-chunk move queue, as state machines.  *)
(*                                                                         *)
(* Cells of a chunk are the array [[Option<Particle>; 32]; 32]; a cell     *)
(* holding Rust's None holds the value None here.  The array is kept as a  *)
(* function over the occupied local coordinates only (a coordinate outside *)
(* its domain is a cell holding None), so that large grids stay cheap.     *)
(***************************************************************************)
EXTENDS Integers, Sequences, FiniteSets, TLC

VARIABLES
    chunks,            \* Map.chunks: chunk coordinate -> Chunk
    active_chunks,     \* Map.active_chunks
    water_acid_dir,    \* Direction::random() drawn once by INTERACTION_RULES
    pc,                \* "idle" | "simulating" (inside simulate_active_chunks)
    tasks,             \* the parallel Chunk::simulate calls of the running tick
    interchunk_queue,  \* DashMap<UVec2, ParticleMove> of the running tick
    prev,              \* Map.chunks when the last tick began
    applyLog,          \* what apply_particle_moves did in the last tick
    lastOp,            \* the operation that produced the current state
    ops,               \* number of direct Chunk calls served (SpecChunk)
    ticks,             \* number of ticks begun
    edits,             \* number of edit requests served
    depth,             \* argument of Common::get_exclusive_at_depth (SpecDepth)
    depthResult,       \* its result
    call,              \* a call of a function: its name, arguments and result
    gen,               \* world generation: the workers and the chunks they fill
    width,             \* Map.width
    height             \* Map.height

vars == <<chunks, active_chunks, water_acid_dir, pc, tasks, interchunk_queue,
          prev, applyLog, lastOp, ops, ticks, edits, depth, depthResult, call, gen,
          width, height>>

---------------------------------------------------------------------------
(* Bounds of the model *)

\* Map::empty(MapWidth, MapHeight)
MapWidth == 36
MapHeight == 6
\* ticks and edit requests explored
MaxTicks == 2
MaxEdits == 2
\* direct Chunk API calls explored in SpecChunk
MaxOps == 3
\* depths 0..MaxDepthLo and u32::MAX-MaxDepthTop..u32::MAX explored
MaxDepthLo == 45
MaxDepthTop == 6

---------------------------------------------------------------------------
(* Program constants *)

CHUNK_SIZE == 32
ACTIVE_CHUNK_RANGE == 12
\* particle/mod.rs: pixels per particle
PARTICLE_SIZE == 3

Max(a, b) == IF a >= b THEN a ELSE b
Min(a, b) == IF a <= b THEN a ELSE b
Abs(a) == IF a >= 0 THEN a ELSE 0 - a

---------------------------------------------------------------------------
(* Particles (particle/mod.rs, particle/liquid.rs) *)

None == [type |-> "None", kind |-> "None", dir |-> "NA"]

Dirt == [type |-> "Common", kind |-> "Dirt", dir |-> "NA"]
Stone == [type |-> "Common", kind |-> "Stone", dir |-> "NA"]
Gold == [type |-> "Special", kind |-> "Gold", dir |-> "NA"]
Ruby == [type |-> "Special", kind |-> "Ruby", dir |-> "NA"]
Obsidian == [type |-> "Solid", kind |-> "Obsidian", dir |-> "NA"]

Direction == {"Still", "Left", "Right"}

Water(d) == [type |-> "Liquid", kind |-> "Water", dir |-> d]
Lava(d) == [type |-> "Liquid", kind |-> "Lava", dir |-> d]
Acid(d) == [type |-> "Liquid", kind |-> "Acid", dir |-> d]

Liquid == {Water(d) : d \in Direction} \cup {Lava(d) : d \in Direction}
             \cup {Acid(d) : d \in Direction}

Particle == {Dirt, Stone, Gold, Ruby, Obsidian} \cup Liquid

IsLiquid(p) == p.type = "Liquid"

\* PartialEq of Particle: derived, except that Liquid compares by
\* discriminant only (the direction is ignored).
ParticleEq(p, q) == p.type = q.type /\ p.kind = q.kind

get_opposite(d) ==
    CASE d = "Left" -> "Right"
      [] d = "Right" -> "Left"
      [] OTHER -> "Still"

as_int(d) ==
    CASE d = "Left" -> 0 - 1
      [] d = "Right" -> 1
      [] OTHER -> 0

\* variant: liquids rise
get_buoyancy_up(fluid) == 1

get_buoyancy(fluid) == 0 - 1

get_viscosity(fluid) ==
    CASE fluid.kind = "Water" -> 5
      [] fluid.kind = "Lava" -> 3
      [] OTHER -> 4

get_direction(fluid) == fluid.dir

get_flipped_direction(fluid) == [fluid EXCEPT !.dir = get_opposite(fluid.dir)]

---------------------------------------------------------------------------
(* Interaction rules (particle/interaction.rs) *)

\* The two entries inserted into INTERACTION_RULES; the Preserve result
\* carries the direction drawn when the table was built.
RuleEntries(wdir) ==
    << [source |-> Water("Still"), target |-> Lava("Still"),
        interaction_type |-> "Replace", result |-> Obsidian],
       [source |-> Water("Still"), target |-> Acid("Still"),
        interaction_type |-> "Preserve", result |-> Water(wdir)] >>

\* PartialEq of InteractionPair: equal in either order.
InteractionPairEq(s1, t1, s2, t2) ==
    \/ ParticleEq(s1, s2) /\ ParticleEq(t1, t2)
    \/ ParticleEq(s1, t2) /\ ParticleEq(t1, s2)

\* Hash of Particle: derived (discriminant, then the inner value), except
\* that Liquid hashes its discriminant only.  The 64-bit values are
\* represented by small codes, one per class of equal particles.
ParticleHash(p) ==
    CASE p.kind = "Dirt" -> 1
      [] p.kind = "Stone" -> 2
      [] p.kind = "Gold" -> 3
      [] p.kind = "Ruby" -> 4
      [] p.kind = "Obsidian" -> 5
      [] p.kind = "Water" -> 6
      [] p.kind = "Lava" -> 7
      [] p.kind = "Acid" -> 8
      [] OTHER -> 0

\* a ^ b
RECURSIVE Xor(_, _)
Xor(a, b) ==
    IF a = 0 /\ b = 0 THEN 0
    ELSE (((a % 2) + (b % 2)) % 2) + 2 * Xor(a \div 2, b \div 2)

\* variant: the two hashes combined in order
PairHash_ordered(source, target) ==
    ParticleHash(source) * 16 + ParticleHash(target)

\* Hash of InteractionPair: the XOR of the hashes of its two particles
PairHash(source, target) ==
    Xor(ParticleHash(source), ParticleHash(target))

\* the entries a HashMap lookup of InteractionPair{source, target} finds:
\* equal hash, then equal key
RuleMatches(wdir, source, target) ==
    {i \in 1..Len(RuleEntries(wdir)) :
        /\ PairHash(source, target) =
               PairHash(RuleEntries(wdir)[i].source, RuleEntries(wdir)[i].target)
        /\ InteractionPairEq(source, target, RuleEntries(wdir)[i].source,
                             RuleEntries(wdir)[i].target)}

\* INTERACTION_RULES.contains_key(&InteractionPair{source, target})
rules_contains_key(wdir, source, target) ==
    RuleMatches(wdir, source, target) # {}

\* INTERACTION_RULES.get(&InteractionPair{source, target}).result
rules_get_result(wdir, source, target) ==
    RuleEntries(wdir)[CHOOSE i \in RuleMatches(wdir, source, target) : TRUE].result

NoRule == [interaction_type |-> "None", result |-> None]

\* INTERACTION_RULES.get(&InteractionPair{source, target}): the rule found
rules_get(wdir, source, target) ==
    IF ~rules_contains_key(wdir, source, target)
    THEN NoRule
    ELSE LET e == RuleEntries(wdir)[CHOOSE i \in RuleMatches(wdir, source, target) : TRUE]
         IN  [interaction_type |-> e.interaction_type, result |-> e.result]

---------------------------------------------------------------------------
(* Coordinates (utils/coords.rs) *)

world_to_chunk(world_pos) ==
    <<world_pos[1] \div CHUNK_SIZE, world_pos[2] \div CHUNK_SIZE>>

world_to_local(world_pos) ==
    <<world_pos[1] % CHUNK_SIZE, world_pos[2] % CHUNK_SIZE>>

chunk_local_to_world(chunk_pos, local_pos) ==
    <<chunk_pos[1] * CHUNK_SIZE + local_pos[1],
      chunk_pos[2] * CHUNK_SIZE + local_pos[2]>>

---------------------------------------------------------------------------
(* Chunk (world/chunk.rs) *)

EmptyCells == [q \in {} |-> None]

\* Chunk::new
NewChunk(position) ==
    [position |-> position, cells |-> EmptyCells,
     dirty |-> FALSE, should_simulate |-> FALSE,
     x_min |-> position[1] * CHUNK_SIZE, x_max |-> (position[1] + 1) * CHUNK_SIZE,
     y_min |-> position[2] * CHUNK_SIZE, y_max |-> (position[2] + 1) * CHUNK_SIZE]

\* variant: bound test off by one
is_in_bounds_le(local_pos) ==
    local_pos[1] <= CHUNK_SIZE /\ local_pos[2] <= CHUNK_SIZE

is_in_bounds(local_pos) ==
    local_pos[1] < CHUNK_SIZE /\ local_pos[2] < CHUNK_SIZE

is_within_chunk(chunk, world_pos) ==
    /\ world_pos[1] >= chunk.x_min
    /\ world_pos[1] < chunk.x_max
    /\ world_pos[2] >= chunk.y_min
    /\ world_pos[2] < chunk.y_max

\* cells[x][y] of an in-bounds coordinate
CellAt(cells, local_pos) ==
    IF local_pos \in DOMAIN cells THEN cells[local_pos] ELSE None

\* cells[x][y] = particle of an in-bounds coordinate
CellPut(cells, local_pos, particle) ==
    IF particle = None
    THEN [q \in (DOMAIN cells) \ {local_pos} |-> cells[q]]
    ELSE (local_pos :> particle) @@ cells

get_particle(chunk, local_pos) ==
    IF ~is_in_bounds(local_pos)
    THEN None
    ELSE CellAt(chunk.cells, local_pos)

\* variant: should_simulate follows the cells at once
set_particle_recomputing(chunk, local_pos, particle) ==
    IF ~is_in_bounds(local_pos)
    THEN chunk
    ELSE [chunk EXCEPT !.cells = CellPut(chunk.cells, local_pos, particle),
                       !.dirty = TRUE,
                       !.should_simulate =
                           \E q \in DOMAIN CellPut(chunk.cells, local_pos, particle) :
                               IsLiquid(CellPut(chunk.cells, local_pos, particle)[q])]

\* variant: the two indices exchanged
set_particle_transposed(chunk, local_pos, particle) ==
    IF ~is_in_bounds(local_pos)
    THEN chunk
    ELSE [chunk EXCEPT !.cells = CellPut(chunk.cells, <<local_pos[2], local_pos[1]>>,
                                         particle),
                       !.dirty = TRUE]

set_particle(chunk, local_pos, particle) ==
    IF ~is_in_bounds(local_pos)
    THEN chunk
    ELSE [chunk EXCEPT !.cells = CellPut(chunk.cells, local_pos, particle),
                       !.dirty = TRUE]

\* variant: any particle counts, not only a Liquid
update_active_state_any(chunk) ==
    [chunk EXCEPT !.should_simulate = DOMAIN chunk.cells # {}]

update_active_state(chunk) ==
    [chunk EXCEPT !.should_simulate =
        \E q \in DOMAIN chunk.cells : IsLiquid(chunk.cells[q])]

trigger_refresh(chunk) ==
    IF ~chunk.dirty
    THEN chunk
    ELSE [update_active_state(chunk) EXCEPT !.dirty = FALSE]

\* Chunk::process_interactions, loop body as a cascade: the cell above is
\* read after its own replacement
RECURSIVE interaction_cell_cascading(_, _)
interaction_cell_cascading(original_cells, q) ==
    IF q[2] = CHUNK_SIZE - 1 THEN CellAt(original_cells, q)
    ELSE LET particle_above == interaction_cell_cascading(original_cells, <<q[1], q[2] + 1>>)
             particle_below == CellAt(original_cells, q)
         IN  IF particle_above = None \/ particle_below = None THEN particle_below
             ELSE IF rules_contains_key(water_acid_dir, particle_above, particle_below)
                  THEN rules_get_result(water_acid_dir, particle_above, particle_below)
                  ELSE particle_below

\* Chunk::process_interactions, loop body: new_cells[x][y] for q = (x, y)
interaction_cell(original_cells, q) ==
    IF q[2] = CHUNK_SIZE - 1 THEN CellAt(original_cells, q)
    ELSE LET particle_above == CellAt(original_cells, <<q[1], q[2] + 1>>)
             particle_below == CellAt(original_cells, q)
         IN  IF particle_above = None \/ particle_below = None THEN particle_below
             ELSE IF rules_contains_key(water_acid_dir, particle_above, particle_below)
                  THEN rules_get_result(water_acid_dir, particle_above, particle_below)
                  ELSE particle_below

\* Chunk::process_interactions: the chunk after the call (also returned)
process_interactions(chunk) ==
    [chunk EXCEPT !.cells = [q \in DOMAIN chunk.cells |->
                                interaction_cell(chunk.cells, q)],
                  !.dirty = TRUE]

---------------------------------------------------------------------------
(* Map (world/map.rs) *)

\* Map::empty creates width columns of height chunks each
ChunkCoords == (0..(MapWidth - 1)) \X (0..(MapHeight - 1))

\* Map::empty(MapWidth, MapHeight).chunks
EmptyMapChunks == [c \in ChunkCoords |-> NewChunk(c)]

Panic == [type |-> "Panic", kind |-> "Panic", dir |-> "NA"]

within_bounds(position) ==
    position[1] < width /\ position[2] < height

get_particle_at(cs, position) ==
    IF position[1] >= width \/ position[2] >= height
    THEN Panic
    ELSE get_particle(cs[world_to_chunk(position)], world_to_local(position))

\* variant: the world position handed to the chunk
set_particle_at_world_pos(cs, position, particle) ==
    IF position[1] >= width \/ position[2] >= height
    THEN cs
    ELSE [cs EXCEPT ![world_to_chunk(position)] =
             set_particle(@, position, particle)]

set_particle_at(cs, position, particle) ==
    IF position[1] >= width \/ position[2] >= height
    THEN cs
    ELSE [cs EXCEPT ![world_to_chunk(position)] =
             set_particle(@, world_to_local(position), particle)]

\* variant: the cell is looked up without the test of the map bounds
is_valid_position_unbounded(cs, position) ==
    get_particle(cs[world_to_chunk(position)], world_to_local(position)) = None

is_valid_position(cs, position) ==
    within_bounds(position) /\ get_particle_at(cs, position) = None

update_dirty_chunks(cs, active) ==
    [c \in DOMAIN cs |->
        IF c \in active /\ cs[c].dirty THEN trigger_refresh(cs[c]) ELSE cs[c]]

\* utils/coords.rs: a pixel translation in particle units, rounded down
screen_to_world(screen_pos, map_width, map_height) ==
    <<(screen_pos[1] + ((map_width * PARTICLE_SIZE) \div 2)) \div PARTICLE_SIZE, (screen_pos[2] + ((map_height * PARTICLE_SIZE) \div 2)) \div PARTICLE_SIZE>>

\* the cast `as u32` takes a negative coordinate to 0
world_vec2_to_chunk(world_pos) ==
    <<Max(world_pos[1], 0) \div CHUNK_SIZE, Max(world_pos[2], 0) \div CHUNK_SIZE>>

\* the rectangle without the clamp to the last chunk of the grid
ActiveRegion_unclipped(center_chunk) ==
    LET min_x == Max(center_chunk[1] - ACTIVE_CHUNK_RANGE, 0)
        min_y == Max(center_chunk[2] - ACTIVE_CHUNK_RANGE, 0)
    IN  (min_x..(center_chunk[1] + ACTIVE_CHUNK_RANGE)) \X (min_y..(center_chunk[2] + ACTIVE_CHUNK_RANGE))

\* the rectangle update_active_chunks inserts around center_chunk
ActiveRegion(center_chunk) ==
    LET max_chunk_x == width - 1
        max_chunk_y == height - 1
        min_x == Max(center_chunk[1] - ACTIVE_CHUNK_RANGE, 0)
        max_x == Min(center_chunk[1] + ACTIVE_CHUNK_RANGE, max_chunk_x)
        min_y == Max(center_chunk[2] - ACTIVE_CHUNK_RANGE, 0)
        max_y == Min(center_chunk[2] + ACTIVE_CHUNK_RANGE, max_chunk_y)
    IN  (min_x..max_x) \X (min_y..max_y)

---------------------------------------------------------------------------
(* Simulation (simulation/mod.rs, simulation/fluid.rs) *)

\* SimulationContext
Context(cs, original_chunk, chunk_queue, new_cells) ==
    [map |-> cs, original_chunk |-> original_chunk,
     chunk_queue |-> chunk_queue, new_cells |-> new_cells]

\* variant: only the in-progress state is tested, not the prior map
validate_move_empty_new_only(context, new_pos) ==
    /\ within_bounds(new_pos)
    /\ IF is_within_chunk(context.original_chunk, new_pos)
       THEN CellAt(context.new_cells, world_to_local(new_pos)) = None
       ELSE new_pos \notin DOMAIN context.chunk_queue

validate_move_empty(context, new_pos) ==
    /\ is_valid_position(context.map, new_pos)
    /\ IF is_within_chunk(context.original_chunk, new_pos)
       THEN CellAt(context.new_cells, world_to_local(new_pos)) = None
       ELSE new_pos \notin DOMAIN context.chunk_queue

validate_move_interaction(context, new_pos, particle) ==
    IF ~within_bounds(new_pos) THEN FALSE
    ELSE LET target_particle == get_particle_at(context.map, new_pos) IN
      IF target_particle = None THEN FALSE
      ELSE IF ~rules_contains_key(water_acid_dir, particle, target_particle) THEN FALSE
      ELSE IF is_within_chunk(context.original_chunk, new_pos)
           THEN LET new_target == CellAt(context.new_cells, world_to_local(new_pos)) IN
                IF new_target # None
                THEN rules_contains_key(water_acid_dir, particle, new_target)
                ELSE FALSE
           ELSE new_pos \notin DOMAIN context.chunk_queue

\* INTERACTION_RULES.get(source: fluid, target: map.get_particle_at(pos)).result
InteractionResult(context, pos, fluid) ==
    rules_get_result(water_acid_dir, fluid, get_particle_at(context.map, pos))

\* One "if validate_move_empty .. else if validate_move_interaction" chain:
\* the (position, particle) returned for the candidate, if any.
Candidate(context, pos, fluid) ==
    IF validate_move_empty(context, pos) THEN {<<pos, fluid>>}
    ELSE IF validate_move_interaction(context, pos, fluid)
         THEN {<<pos, InteractionResult(context, pos, fluid)>>}
         ELSE {}

\* the offsets of "for offset in (0..viscosity).rev()"
ScanOffsets(fluid) == 0..(get_viscosity(fluid) - 1)

\* vertical candidate of one offset of the scan
VerticalAt(context, fluid, x, y, offset) ==
    Candidate(context, <<x, Max(y + get_buoyancy(fluid) * offset, 0)>>, fluid)

\* the scan returns at the first (largest) offset whose candidate is valid
VerticalScan(context, fluid, x, y) ==
    LET hits == {o \in ScanOffsets(fluid) : VerticalAt(context, fluid, x, y, o) # {}}
    IN  UNION {VerticalAt(context, fluid, x, y, o) :
                  o \in {h \in hits : \A o2 \in hits : h >= o2}}

DiagonalAt(context, fluid, x, y, offset) ==
    LET new_y == Max(y + get_buoyancy(fluid), 0)
        new_x_right == Max(x + offset * get_buoyancy(fluid), 0)
        new_x_left == Max(x - offset * get_buoyancy(fluid), 0)
        new_pos_right == <<new_x_right, new_y>>
        new_pos_left == <<new_x_left, new_y>>
        ER == validate_move_empty(context, new_pos_right)
        EL == validate_move_empty(context, new_pos_left)
        IR == validate_move_interaction(context, new_pos_right, fluid)
        IL == validate_move_interaction(context, new_pos_left, fluid)
    IN  IF ER /\ EL
        THEN {<<new_pos_right, fluid>>, <<new_pos_left, fluid>>}
        ELSE IF IR /\ IL
        THEN {<<new_pos_right, InteractionResult(context, new_pos_right, fluid)>>,
              <<new_pos_left, InteractionResult(context, new_pos_left, fluid)>>}
        ELSE IF ER THEN {<<new_pos_right, fluid>>}
        ELSE IF IR
        THEN {<<new_pos_right, InteractionResult(context, new_pos_right, fluid)>>}
        ELSE IF EL THEN {<<new_pos_left, fluid>>}
        ELSE IF IL
        THEN {<<new_pos_left, InteractionResult(context, new_pos_left, fluid)>>}
        ELSE {}

DiagonalScan(context, fluid, x, y) ==
    LET hits == {o \in ScanOffsets(fluid) : DiagonalAt(context, fluid, x, y, o) # {}}
    IN  UNION {DiagonalAt(context, fluid, x, y, o) :
                  o \in {h \in hits : \A o2 \in hits : h >= o2}}

\* variant: a blocked liquid keeps its direction
HorizontalCreep_unflipped(context, fluid, x, y) ==
    LET new_x == Max(x + as_int(get_direction(fluid)), 0)
        moved == Candidate(context, <<new_x, y>>, fluid)
    IN  IF moved # {} THEN moved
        ELSE {<<(<<x, y>>), fluid>>}

HorizontalCreep(context, fluid, x, y) ==
    LET new_x == Max(x + as_int(get_direction(fluid)), 0)
        moved == Candidate(context, <<new_x, y>>, fluid)
    IN  IF moved # {} THEN moved
        ELSE {<<(<<x, y>>), get_flipped_direction(fluid)>>}

\* FluidSimulator::calculate_step: the set of (new_pos, particle) it can
\* return (more than one where it draws a random direction)
calculate_step(context, fluid, x, y) ==
    LET vertical == VerticalScan(context, fluid, x, y)
        diagonal == DiagonalScan(context, fluid, x, y)
    IN  IF vertical # {} THEN vertical
        ELSE IF diagonal # {} THEN diagonal
        ELSE HorizontalCreep(context, fluid, x, y)

NoMove == [source_pos |-> <<0, 0>>, target_pos |-> <<0, 0>>, particle |-> None]

\* handle_particle_movement: the new new_cells and the returned move
handle_particle_movement(original_chunk, new_cells, source_pos, new_pos, particle) ==
    IF ~is_within_chunk(original_chunk, new_pos)
    THEN [new_cells |-> new_cells,
          interchunk_move |-> [source_pos |-> source_pos, target_pos |-> new_pos,
                               particle |-> particle]]
    ELSE [new_cells |-> CellPut(new_cells, world_to_local(new_pos), particle),
          interchunk_move |-> NoMove]

\* FluidSimulator::simulate for the liquid at local (x, y)
fluid_simulate(context, fluid, x, y) ==
    LET particle_world_pos ==
            chunk_local_to_world(context.original_chunk.position, <<x, y>>)
    IN  {handle_particle_movement(context.original_chunk, context.new_cells,
                                  particle_world_pos, r[1], r[2]) :
            r \in calculate_step(context, fluid, particle_world_pos[1],
                                 particle_world_pos[2])}

MoveDistance(m) ==
    Abs(m.source_pos[1] - m.target_pos[1]) + Abs(m.source_pos[2] - m.target_pos[2])

\* variant: the later move wins on equal distance
queue_entry_last(queue, particle_move) ==
    LET t == particle_move.target_pos IN
    IF t \in DOMAIN queue
    THEN IF MoveDistance(particle_move) <= MoveDistance(queue[t])
         THEN [queue EXCEPT ![t] = particle_move]
         ELSE queue
    ELSE [k \in (DOMAIN queue) \cup {t} |-> IF k = t THEN particle_move ELSE queue[k]]

\* interchunk_queue.entry(target_pos).and_modify(..).or_insert(particle_move)
queue_entry(queue, particle_move) ==
    LET t == particle_move.target_pos IN
    IF t \in DOMAIN queue
    THEN IF MoveDistance(particle_move) < MoveDistance(queue[t])
         THEN [queue EXCEPT ![t] = particle_move]
         ELSE queue
    ELSE [k \in (DOMAIN queue) \cup {t} |-> IF k = t THEN particle_move ELSE queue[k]]

EmptyQueue == [k \in {} |-> NoMove]

\* the occupied cells in the order of the loops of Chunk::simulate:
\* x ascending, then y ascending
RECURSIVE CellOrder(_)
CellOrder(S) ==
    IF S = {} THEN <<>>
    ELSE LET m == CHOOSE a \in S : \A b \in S :
                     a[1] < b[1] \/ (a[1] = b[1] /\ a[2] <= b[2])
         IN  <<m>> \o CellOrder(S \ {m})

\* body of the loops of Chunk::simulate for one occupied cell: the possible
\* (new_cells, interchunk_move)
simulate_cell(cs, chunk, queue, new_cells, local_pos) ==
    LET particle == chunk.cells[local_pos] IN
    IF IsLiquid(particle)
    THEN fluid_simulate(Context(cs, chunk, queue, new_cells), particle,
                        local_pos[1], local_pos[2])
    ELSE {[new_cells |-> CellPut(new_cells, local_pos, particle),
           interchunk_move |-> NoMove]}

\* variant: the new cells are not swapped in
simulate_finish_unswapped(chunk, new_cells) ==
    [chunk EXCEPT !.dirty = TRUE]

\* variant: the chunk is not marked dirty
simulate_finish_clean(chunk, new_cells) ==
    [chunk EXCEPT !.cells = new_cells]

\* end of Chunk::simulate: swap in the new cells, mark dirty
simulate_finish(chunk, new_cells) ==
    [chunk EXCEPT !.cells = new_cells, !.dirty = TRUE]

\* Chunk::simulate run by one thread alone: the possible (chunk, queue)
RECURSIVE simulate_loop(_, _, _, _, _)
simulate_loop(cs, chunk, todo, new_cells, queue) ==
    IF todo = <<>>
    THEN {[chunk |-> simulate_finish(chunk, new_cells), queue |-> queue]}
    ELSE UNION {simulate_loop(cs, chunk, Tail(todo), o.new_cells,
                    IF o.interchunk_move = NoMove THEN queue
                    ELSE queue_entry(queue, o.interchunk_move)) :
                o \in simulate_cell(cs, chunk, queue, new_cells, Head(todo))}

\* variant: no early return on should_simulate
simulate_always(cs, chunk, queue) ==
    simulate_loop(cs, chunk, CellOrder(DOMAIN chunk.cells), EmptyCells, queue)

simulate(cs, chunk, queue) ==
    IF ~chunk.should_simulate
    THEN {[chunk |-> chunk, queue |-> queue]}
    ELSE simulate_loop(cs, chunk, CellOrder(DOMAIN chunk.cells), EmptyCells, queue)

\* calculate_step when every rng.random_range(0..2) of the tick returns
\* random_direction: 0 takes new_pos_right (x + offset * buoyancy), 1 takes
\* new_pos_left
calculate_step_drawn(context, fluid, x, y, random_direction) ==
    LET toward == IF random_direction = 0 THEN get_buoyancy(fluid)
                  ELSE 0 - get_buoyancy(fluid)
    IN  CHOOSE r \in calculate_step(context, fluid, x, y) :
            \A q \in calculate_step(context, fluid, x, y) :
                (r[1][1] - q[1][1]) * toward >= 0

\* body of the loops of Chunk::simulate for one occupied cell under
\* random_direction: the step taken, and what handle_particle_movement did
simulate_cell_drawn(cs, chunk, queue, new_cells, local_pos, random_direction) ==
    LET particle == chunk.cells[local_pos]
        source_pos == chunk_local_to_world(chunk.position, local_pos)
    IN  IF IsLiquid(particle)
        THEN CHOOSE o \in
                 {[source_pos |-> source_pos, new_pos |-> r[1], new_particle |-> r[2],
                   handled |-> handle_particle_movement(chunk, new_cells, source_pos,
                                                        r[1], r[2])] :
                     r \in {calculate_step_drawn(Context(cs, chunk, queue, new_cells),
                                                 particle, source_pos[1],
                                                 source_pos[2], random_direction)}} :
                 TRUE
        ELSE [source_pos |-> source_pos, new_pos |-> source_pos,
              new_particle |-> particle,
              handled |-> [new_cells |-> CellPut(new_cells, local_pos, particle),
                           interchunk_move |-> NoMove]]

\* Chunk::simulate run by one thread alone under random_direction: the chunk
\* returned and the queue
RECURSIVE simulate_loop_drawn(_, _, _, _, _, _)
simulate_loop_drawn(cs, chunk, todo, new_cells, queue, random_direction) ==
    IF todo = <<>>
    THEN [chunk |-> simulate_finish(chunk, new_cells), queue |-> queue]
    ELSE LET o == simulate_cell_drawn(cs, chunk, queue, new_cells, Head(todo),
                                     random_direction)
         IN  simulate_loop_drawn(cs, chunk, Tail(todo), o.handled.new_cells,
                                 IF o.handled.interchunk_move = NoMove THEN queue
                                 ELSE queue_entry(queue, o.handled.interchunk_move),
                                 random_direction)

\* the parallel iterator run on one thread: the chunks of order simulated
\* one after the other; the updated chunks and the queue
RECURSIVE simulate_in_order(_, _, _, _, _)
simulate_in_order(cs, order, updated, queue, random_direction) ==
    IF order = <<>> THEN [updated |-> updated, queue |-> queue]
    ELSE LET o == simulate_loop_drawn(cs, cs[Head(order)],
                                     CellOrder(DOMAIN cs[Head(order)].cells),
                                     EmptyCells, queue, random_direction)
         IN  simulate_in_order(cs, Tail(order),
                               (Head(order) :> o.chunk) @@ updated, o.queue,
                               random_direction)

\* moves.sort_by_key(|m| (m.0.y, m.0.x))
RECURSIVE SortMoves(_, _)
SortMoves(queue, keys) ==
    IF keys = {} THEN <<>>
    ELSE LET m == CHOOSE a \in keys : \A b \in keys :
                     a[2] < b[2] \/ (a[2] = b[2] /\ a[1] <= b[1])
         IN  <<queue[m]>> \o SortMoves(queue, keys \ {m})

\* "First, remove particles from source positions."
RECURSIVE ClearSources(_, _)
ClearSources(cs, moves) ==
    IF moves = <<>> THEN cs
    ELSE ClearSources(set_particle_at(cs, Head(moves).source_pos, None), Tail(moves))

\* body of the loop "Then, try to place particles at target positions":
\* the map after it, and whether it wrote the target cell
place_target(cs, movement) ==
    IF get_particle_at(cs, movement.target_pos) = None
    THEN [map |-> set_particle_at(cs, movement.target_pos, movement.particle),
          wrote |-> TRUE]
    ELSE [map |-> set_particle_at(cs, movement.target_pos, movement.particle),
          wrote |-> TRUE]

RECURSIVE PlaceTargets(_, _)
PlaceTargets(cs, moves) ==
    IF moves = <<>> THEN cs
    ELSE PlaceTargets(place_target(cs, Head(moves)).map, Tail(moves))

\* variant: each move clears its source right before it writes its target
RECURSIVE MoveOneByOne(_, _)
MoveOneByOne(cs, moves) ==
    IF moves = <<>> THEN cs
    ELSE MoveOneByOne(place_target(set_particle_at(cs, Head(moves).source_pos, None),
                                   Head(moves)).map,
                      Tail(moves))

apply_particle_moves_one_by_one(cs, queue) ==
    MoveOneByOne(cs, SortMoves(queue, DOMAIN queue))

apply_particle_moves(cs, queue) ==
    LET moves == SortMoves(queue, DOMAIN queue)
    IN  PlaceTargets(ClearSources(cs, moves), moves)

\* Map::simulate_active_chunks with the chunks simulated one after the other
simulate_active_chunks_in_order(cs, active, random_direction) ==
    LET o == simulate_in_order(cs,
                 CellOrder({a \in active : cs[a].should_simulate}),
                 [c \in {} |-> NewChunk(c)], EmptyQueue, random_direction)
    IN  apply_particle_moves(
            [c \in DOMAIN cs |->
                IF c \in DOMAIN o.updated THEN o.updated[c] ELSE cs[c]],
            o.queue)

\* per move of the placement loop: what it found at the target and whether
\* it wrote the target
RECURSIVE PlaceLog(_, _)
PlaceLog(cs, moves) ==
    IF moves = <<>> THEN <<>>
    ELSE LET movement == Head(moves) IN
         <<[target_pos |-> movement.target_pos,
            found |-> get_particle_at(cs, movement.target_pos),
            particle |-> movement.particle,
            wrote |-> place_target(cs, movement).wrote]>>
         \o PlaceLog(place_target(cs, movement).map, Tail(moves))

---------------------------------------------------------------------------
(* Common depth intervals (particle/mod.rs).  A u32 is the pair <<hi, lo>> *)
(* of its 16-bit halves, so that u32::MAX is representable.               *)

U32(n) == <<0, n>>
U32_MAX == <<65535, 65535>>

U32Lt(a, b) == a[1] < b[1] \/ (a[1] = b[1] /\ a[2] < b[2])
U32Ge(a, b) == ~U32Lt(a, b)

\* Common::iter()
CommonVariants == <<"Dirt", "Stone">>

min_depth(variant) ==
    CASE variant = "Dirt" -> U32(0)
      [] variant = "Stone" -> U32(12)

max_depth(variant) ==
    CASE variant = "Dirt" -> U32(12)
      [] variant = "Stone" -> U32_MAX

DepthInRange(d, variant) ==
    U32Ge(d, min_depth(variant)) /\ U32Lt(d, max_depth(variant))

matching_variants(d) ==
    SelectSeq(CommonVariants, LAMBDA variant : DepthInRange(d, variant))

PanicResult == "panic"

\* variant: Common::default() when no variant matches
get_exclusive_at_depth_default(d) ==
    CASE Len(matching_variants(d)) = 0 -> "Dirt"
      [] Len(matching_variants(d)) = 1 -> matching_variants(d)[1]
      [] OTHER -> PanicResult

get_exclusive_at_depth(d) ==
    LET matching == matching_variants(d)
    IN  CASE Len(matching) = 0 -> PanicResult
          [] Len(matching) = 1 -> matching[1]
          [] OTHER -> PanicResult

---------------------------------------------------------------------------
(* Special particles and the weighted roll (particle/ore.rs, particle/gem.rs, *)
(* world/map.rs)                                                             *)

\* Special::all_variants(): the ores, then the gems
all_variants == <<Gold, Ruby>>

special_min_depth(p) ==
    CASE p.kind = "Gold" -> U32(23)
      [] p.kind = "Ruby" -> U32(80)

special_max_depth(p) ==
    CASE p.kind = "Gold" -> U32_MAX
      [] p.kind = "Ruby" -> U32(150)

spawn_chance(p) ==
    CASE p.kind = "Gold" -> 20
      [] p.kind = "Ruby" -> 3

\* valid_particles.sort_unstable_by_key(|p| p.spawn_chance())
RECURSIVE sort_by_spawn_chance(_)
sort_by_spawn_chance(ps) ==
    IF ps = <<>> THEN <<>>
    ELSE LET i == CHOOSE a \in 1..Len(ps) :
                     \A b \in 1..Len(ps) : spawn_chance(ps[a]) <= spawn_chance(ps[b])
         IN  <<ps[i]>> \o sort_by_spawn_chance(
                 SubSeq(ps, 1, i - 1) \o SubSeq(ps, i + 1, Len(ps)))

RECURSIVE sum_spawn_chance(_)
sum_spawn_chance(ps) ==
    IF ps = <<>> THEN 0 ELSE spawn_chance(Head(ps)) + sum_spawn_chance(Tail(ps))

\* variant: a hit needs random_val below the weight accumulated before the
\* particle
RECURSIVE fold_select_exclusive(_, _, _, _)
fold_select_exclusive(ps, acc_weight, selected, random_val) ==
    IF ps = <<>> THEN selected
    ELSE LET new_weight == acc_weight + spawn_chance(Head(ps)) IN
         IF selected = None /\ random_val < acc_weight
         THEN fold_select_exclusive(Tail(ps), new_weight, Head(ps), random_val)
         ELSE fold_select_exclusive(Tail(ps), new_weight, selected, random_val)

\* the fold of the weighted selection: the first particle whose cumulative
\* weight exceeds random_val
RECURSIVE fold_select(_, _, _, _)
fold_select(ps, acc_weight, selected, random_val) ==
    IF ps = <<>> THEN selected
    ELSE LET new_weight == acc_weight + spawn_chance(Head(ps)) IN
         IF selected = None /\ random_val < new_weight
         THEN fold_select(Tail(ps), new_weight, Head(ps), random_val)
         ELSE fold_select(Tail(ps), new_weight, selected, random_val)

\* variant: no filter on the depth
roll_special_particle_unfiltered(d, roll, random_val) ==
    LET valid_particles == sort_by_spawn_chance(all_variants)
        total_weight == sum_spawn_chance(valid_particles)
    IN  IF valid_particles = <<>> THEN None
        ELSE IF roll >= total_weight THEN None
        ELSE fold_select(valid_particles, 0, None, random_val)

\* Map::roll_special_particle, for the two values its rng returns:
\* roll = random_range(0..1000), random_val = random_range(0..total_weight)
roll_special_particle(d, roll, random_val) ==
    LET valid_particles ==
            sort_by_spawn_chance(
                SelectSeq(all_variants,
                          LAMBDA p : /\ U32Ge(U32(d), special_min_depth(p))
                                     /\ U32Lt(U32(d), special_max_depth(p))))
        total_weight == sum_spawn_chance(valid_particles)
    IN  IF valid_particles = <<>> THEN None
        ELSE IF roll >= total_weight THEN None
        ELSE fold_select(valid_particles, 0, None, random_val)

---------------------------------------------------------------------------
(* Veins (world/generator.rs) *)

\* spawn_gem
spawn_gem(position, particle) == <<[pos |-> position, particle |-> particle]>>

\* variant: the bounds test left out
vein_step_unclipped(vein_particles, position, particle, map_width, map_height, draw) ==
    IF draw.offset_x = 0 /\ draw.offset_y = 0 THEN vein_particles
    ELSE IF draw.place
         THEN Append(vein_particles,
                     [pos |-> <<position[1] + draw.offset_x,
                                position[2] + draw.offset_y>>,
                      particle |-> particle])
         ELSE vein_particles

\* body of the loop of spawn_vein for one iteration, whose rng returns
\* draw.offset_x, draw.offset_y and draw.place (random_bool(0.7))
vein_step(vein_particles, position, particle, map_width, map_height, draw) ==
    IF draw.offset_x = 0 /\ draw.offset_y = 0 THEN vein_particles
    ELSE LET new_x == position[1] + draw.offset_x
             new_y == position[2] + draw.offset_y
         IN  IF new_x < 0 \/ new_y < 0 \/ new_x >= map_width \/ new_y >= map_height
             THEN vein_particles
             ELSE IF draw.place
                  THEN Append(vein_particles,
                              [pos |-> <<new_x, new_y>>, particle |-> particle])
                  ELSE vein_particles

RECURSIVE vein_loop(_, _, _, _, _, _)
vein_loop(vein_particles, position, particle, map_width, map_height, draws) ==
    IF draws = <<>> THEN vein_particles
    ELSE vein_loop(vein_step(vein_particles, position, particle, map_width,
                             map_height, Head(draws)),
                   position, particle, map_width, map_height, Tail(draws))

\* spawn_vein, for vein_size = rng.vein_size and the draws rng.draws of its
\* vein_size iterations
spawn_vein(position, particle, map_width, map_height, rng) ==
    vein_loop(<<[pos |-> position, particle |-> particle]>>, position, particle,
              map_width, map_height, SubSeq(rng.draws, 1, rng.vein_size))

---------------------------------------------------------------------------
(* World generation (world/generator.rs, Map::generate) *)

\* ((x as f32 * 0.05).sin() * 10.0) as u32 for x = 0..63, entry x + 1; the
\* cast saturates a negative value to 0
HeightVariation ==
    <<0, 0, 0, 1, 1, 2, 2, 3, 3, 4, 4, 5, 5, 6, 6, 6,
      7, 7, 7, 8, 8, 8, 8, 9, 9, 9, 9, 9, 9, 9, 9, 9,
      9, 9, 9, 9, 9, 9, 9, 9, 9, 8, 8, 8, 8, 7, 7, 7,
      6, 6, 5, 5, 5, 4, 4, 3, 3, 2, 2, 1, 1, 0, 0, 0>>

\* surface_heights[x]; base_height = (map_height as f32 * 0.95) as u32
calculate_surface_heights(map_width, map_height) ==
    [x \in 0..(map_width - 1) |->
        ((map_height * 95) \div 100) + HeightVariation[x + 1]]

\* map_width.div_ceil(CHUNK_SIZE)
chunk_count_width(map_width) == (map_width + CHUNK_SIZE - 1) \div CHUNK_SIZE

chunk_count_height(map_height) == (map_height + CHUNK_SIZE - 1) \div CHUNK_SIZE

\* the Vec<Chunk> of create_empty_chunks: for x, for y, push; entry i + 1 is
\* the element of index i
create_empty_chunks(chunks_width, chunks_height) ==
    [i \in 1..(chunks_width * chunks_height) |->
        NewChunk(<<(i - 1) \div chunks_height, (i - 1) % chunks_height>>)]

world_to_chunk_index(position, chunks_width) ==
    [local_pos |-> world_to_local(position),
     chunk_index |-> world_to_chunk(position)[1]
                       + world_to_chunk(position)[2] * chunks_width]

\* Common -> Particle
CommonParticle(variant) ==
    CASE variant = "Dirt" -> Dirt
      [] variant = "Stone" -> Stone
      [] OTHER -> Panic

\* The shared chunk data as one worker leaves it: st.chunks is the Vec<Chunk>
\* behind the UnsafeCell, st.written the world positions the worker has
\* written so far, st.placed those written by process_special_particle.
RECURSIVE place_particles(_, _, _)
place_particles(st, particles, chunks_width) ==
    IF particles = <<>> THEN st
    ELSE LET at == world_to_chunk_index(Head(particles).pos, chunks_width)
             next == [chunks |-> [st.chunks EXCEPT ![at.chunk_index + 1] =
                                     set_particle(@, at.local_pos,
                                                  Head(particles).particle)],
                      written |-> st.written \cup {Head(particles).pos},
                      placed |-> st.placed \cup {Head(particles).pos}]
         IN  place_particles(next, Tail(particles), chunks_width)

\* process_special_particle; rng is what spawn_vein draws
process_special_particle(st, position, special, map_width, map_height, chunks_width, rng) ==
    LET particles == IF special.kind = "Gold"
                     THEN spawn_vein(position, special, map_width, map_height, rng)
                     ELSE spawn_gem(position, special)
    IN  place_particles(st, particles, chunks_width)

\* variant: the row y taken for the depth
process_common_particle_row(st, position, d, chunks_width, stale) ==
    LET common_particle == CommonParticle(get_exclusive_at_depth(U32(position[2])))
        at == world_to_chunk_index(position, chunks_width)
    IN  IF \/ get_particle(st.chunks[at.chunk_index + 1], at.local_pos) = None
           \/ position \in stale
        THEN [chunks |-> [st.chunks EXCEPT ![at.chunk_index + 1] =
                            set_particle(@, at.local_pos, common_particle)],
              written |-> st.written \cup {position},
              placed |-> st.placed]
        ELSE st

\* process_common_particle.  The test and the write are not atomic and the
\* cell is shared with the other workers: at a position of stale the test
\* saw the cell before another worker wrote it.
process_common_particle(st, position, d, chunks_width, stale) ==
    LET common_particle == CommonParticle(get_exclusive_at_depth(U32(d)))
        at == world_to_chunk_index(position, chunks_width)
    IN  IF \/ get_particle(st.chunks[at.chunk_index + 1], at.local_pos) = None
           \/ position \in stale
        THEN [chunks |-> [st.chunks EXCEPT ![at.chunk_index + 1] =
                            set_particle(@, at.local_pos, common_particle)],
              written |-> st.written \cup {position},
              placed |-> st.placed]
        ELSE st

\* what the rng returns at a cell where no special particle is rolled
NoSpecialDraw ==
    [roll |-> 999, random_val |-> 0, vein |-> [vein_size |-> 3, draws |-> <<>>]]

\* body of the loop over y of process_columns_range; rolls[position] is what
\* the rng returns at the cell
process_cell(st, position, surface_height, map_width, map_height, chunks_width, rolls, stale) ==
    LET y == position[2]
        draw == IF position \in DOMAIN rolls THEN rolls[position]
                ELSE NoSpecialDraw
        special_particle ==
            IF y > surface_height THEN None
            ELSE roll_special_particle(surface_height - y, draw.roll,
                                       draw.random_val)
    IN  IF special_particle.type = "Special"
        THEN process_special_particle(st, position, special_particle, map_width,
                                      map_height, chunks_width, draw.vein)
        ELSE IF y <= surface_height
             THEN process_common_particle(st, position, surface_height - y,
                                          chunks_width, stale)
             ELSE st

\* for y in 0..map_height
RECURSIVE process_column(_, _, _, _, _, _, _, _, _)
process_column(st, x, y, surface_height, map_width, map_height, chunks_width, rolls, stale) ==
    IF y >= map_height THEN st
    ELSE LET next == process_cell(st, <<x, y>>, surface_height, map_width,
                                  map_height, chunks_width, rolls, stale)
         IN  IF DOMAIN next.chunks = {} THEN next
             ELSE process_column(next, x, y + 1, surface_height, map_width,
                                 map_height, chunks_width, rolls, stale)

\* process_columns_range: for x in start_x..end_x
RECURSIVE process_columns_range(_, _, _, _, _, _, _, _, _)
process_columns_range(st, start_x, end_x, surface_heights, map_width, map_height, chunks_width, rolls, stale) ==
    IF start_x >= end_x THEN st
    ELSE LET column == process_column([chunks |-> st.chunks, written |-> {}, placed |-> {}],
                                      start_x, 0, surface_heights[start_x],
                                      map_width, map_height, chunks_width,
                                      rolls, stale)
             next == [chunks |-> column.chunks,
                      written |-> st.written \cup column.written,
                      placed |-> st.placed \cup column.placed]
         IN  IF DOMAIN next.chunks = {} THEN next
             ELSE process_columns_range(next, start_x + 1, end_x,
                                        surface_heights, map_width, map_height,
                                        chunks_width, rolls, stale)

\* work_unit = (map_width / num_cpus).max(1)
work_unit(map_width, num_cpus) == Max(map_width \div num_cpus, 1)

thread_start_x(thread_id, map_width, num_cpus) ==
    thread_id * work_unit(map_width, num_cpus)

thread_end_x(thread_id, map_width, num_cpus) ==
    IF thread_id = num_cpus - 1 THEN map_width
    ELSE (thread_id + 1) * work_unit(map_width, num_cpus)

\* the columns process_columns_range visits:
\* surface_heights.iter().enumerate().skip(start_x).take(end_x - start_x).
\* With end_x < start_x the usize subtraction panics in a build with overflow
\* checks and wraps to a count above every length in a build without them.
columns_of_range(start_x, end_x, map_width, overflow_checks) ==
    IF end_x < start_x
    THEN IF overflow_checks THEN [panic |-> TRUE, visited |-> {}]
         ELSE [panic |-> FALSE, visited |-> {x \in 0..(map_width - 1) : x >= start_x}]
    ELSE [panic |-> FALSE, visited |-> {x \in 0..(map_width - 1) : x >= start_x /\ x < end_x}]

\* Map::empty(w, h): w columns of h chunks each
Map_empty(w, h) ==
    [width |-> w, height |-> h,
     chunks |-> [c \in (0..(w - 1)) \X (0..(h - 1)) |-> NewChunk(c)]]

\* Map::distribute_among_chunks: chunks[i % cw][i / cw] = chunk, cw = self.width
distribute_among_chunks(map, chunks_vec) ==
    [map EXCEPT !.chunks =
        [c \in DOMAIN map.chunks |->
            IF c[1] + c[2] * map.width + 1 \in DOMAIN chunks_vec
            THEN chunks_vec[c[1] + c[2] * map.width + 1]
            ELSE map.chunks[c]]]

\* Map::get_particle_at of a Map value
Map_get_particle_at(map, position) ==
    IF position[1] >= map.width \/ position[2] >= map.height
    THEN Panic
    ELSE get_particle(map.chunks[world_to_chunk(position)],
                      world_to_local(position))

---------------------------------------------------------------------------
(* Inputs explored *)

\* world positions of edit requests (the last one is outside the map)
EditPositions == {<<31, 0>>, <<35, 0>>, <<5, 5>>, <<MapWidth, 0>>}
EditParticles == {None, Stone, Lava("Left")}

\* chunk of the focal position handed to update_active_chunks
FocalChunks == {<<0, 0>>, <<13, 0>>}

\* the chunk and the local coordinates used for direct Chunk calls
TestChunk == <<0, 0>>
LocalSamples ==
    {<<5, 5>>, <<7, 2>>, <<CHUNK_SIZE - 1, CHUNK_SIZE - 1>>,
     <<CHUNK_SIZE, 5>>, <<5, CHUNK_SIZE>>, <<CHUNK_SIZE + 1, CHUNK_SIZE>>}
LocalParticles == {None, Stone, Water("Still")}

DepthSamples ==
    {U32(n) : n \in 0..MaxDepthLo} \cup
    {<<65535, 65535 - k>> : k \in 0..MaxDepthTop}

\* centres handed to spawn_vein, in a map of CHUNK_SIZE by CHUNK_SIZE cells:
\* the corners, one cell of each border, one interior cell
VeinPositions ==
    {<<0, 0>>, <<CHUNK_SIZE - 1, CHUNK_SIZE - 1>>, <<0, 5>>, <<5, 0>>,
     <<CHUNK_SIZE - 1, 5>>, <<5, CHUNK_SIZE - 1>>, <<5, 5>>}

\* what the rng of spawn_vein returns in one iteration
VeinDraws ==
    {[offset_x |-> 0 - 1, offset_y |-> 0 - 1, place |-> TRUE],
     [offset_x |-> 0, offset_y |-> 0, place |-> TRUE],
     [offset_x |-> 1, offset_y |-> 1, place |-> TRUE],
     [offset_x |-> 1, offset_y |-> 0, place |-> FALSE]}

\* vein_size = rng.random_range(3..=6)
VeinSizes == 3..6

\* the sequences of n draws
RECURSIVE DrawSeqs(_)
DrawSeqs(n) ==
    IF n = 0 THEN {<<>>}
    ELSE {Append(ds, d) : ds \in DrawSeqs(n - 1), d \in VeinDraws}

VeinRngs ==
    UNION {{[vein_size |-> n, draws |-> ds] : ds \in DrawSeqs(n)} : n \in VeinSizes}

\* Map::generate(width, height) on a machine of num_cpus processors
GenInputs ==
    {[width |-> 1, height |-> 1, num_cpus |-> 2],
     [width |-> 1, height |-> 2, num_cpus |-> 2]}

\* cells where the rng may roll a special particle: two corners of the bottom
\* row and the two sides of the border between the column ranges
OreCells == {<<0, 0>>, <<15, 1>>, <<16, 1>>, <<31, 0>>}

\* what the rng of spawn_vein returns for one vein
GenVeinRngs ==
    {[vein_size |-> 3,
      draws |-> <<[offset_x |-> 0 - 1, offset_y |-> 0 - 1, place |-> TRUE],
                  [offset_x |-> 1, offset_y |-> 1, place |-> TRUE],
                  [offset_x |-> 1, offset_y |-> 0, place |-> FALSE]>>],
     [vein_size |-> 4,
      draws |-> <<[offset_x |-> 1, offset_y |-> 0, place |-> TRUE],
                  [offset_x |-> 0 - 1, offset_y |-> 0, place |-> TRUE],
                  [offset_x |-> 0, offset_y |-> 0, place |-> TRUE],
                  [offset_x |-> 0, offset_y |-> 1, place |-> TRUE]>>]}

\* what the rng returns at a cell of OreCells: the first roll below the
\* total weight, or equal to it
SpecialDraws ==
    {[roll |-> 19, random_val |-> 2, vein |-> r] : r \in GenVeinRngs}
    \cup {[roll |-> 20, random_val |-> 2,
           vein |-> [vein_size |-> 3, draws |-> <<>>]]}

\* the rolls of one worker: at most one cell of cand draws from SpecialDraws
RollPlans(cand) ==
    UNION {[S -> SpecialDraws] : S \in {{}} \cup {{c} : c \in cand}}

\* Map::empty(SceneWidth, SceneHeight): the four chunks (0,0), (1,0), (0,1),
\* (1,1) hold cells inside the map
SceneWidth == CHUNK_SIZE + 3
SceneHeight == CHUNK_SIZE + 2

Edit(pos, particle) == [pos |-> pos, particle |-> particle]

SceneLiquids == {Lava("Left"), Water("Right")}

\* edit requests that build a scene: two liquids above the corner where
\* the four chunks meet, the fall of the right one blocked by two stones
CornerScenes ==
    {<<Edit(p, k1), Edit(<<CHUNK_SIZE, CHUNK_SIZE>>, k2),
       Edit(<<CHUNK_SIZE, CHUNK_SIZE - 2>>, Stone),
       Edit(<<CHUNK_SIZE, CHUNK_SIZE - 1>>, Stone)>> :
        p \in {<<CHUNK_SIZE - 2, CHUNK_SIZE + 1>>, <<CHUNK_SIZE - 2, CHUNK_SIZE>>},
        k1 \in SceneLiquids, k2 \in SceneLiquids}

\* edit requests that build a scene: a liquid at (5, 5), nothing or a stone
\* one or two cells below it
ColumnScenes ==
    {<<Edit(<<5, 5>>, k)>> : k \in SceneLiquids}
    \cup {<<Edit(<<5, 5>>, k), Edit(<<5, y>>, Stone)>> :
            k \in SceneLiquids, y \in {3, 4}}

\* edit requests that build a scene: two liquids on the floor, one on each
\* side of the border between chunks (0, 0) and (1, 0), stones on the cells
\* the right one would reach first
SwapScenes ==
    {<<Edit(<<CHUNK_SIZE + 1, 0>>, k1), Edit(<<CHUNK_SIZE - 1, 0>>, k2),
       Edit(<<CHUNK_SIZE - 3, 0>>, Stone), Edit(<<CHUNK_SIZE - 2, 0>>, Stone)>> :
        k1 \in SceneLiquids, k2 \in SceneLiquids}

\* edit requests that lay stones on the floor cells (a, 0) .. (b, 0)
Floor(a, b) == [i \in 1..(b - a + 1) |-> Edit(<<a + i - 1, 0>>, Stone)]

\* edit requests that build a scene: a lava on a stone floor that is wider
\* than its diagonal reach, with or without stones beside it; two lavas
\* that face the same free cell; a lava at the left edge of the map
CreepScenes ==
    {<<Edit(<<5, 1>>, Lava(d))>> \o Floor(3, 7) \o beside :
        d \in Direction,
        beside \in {<<>>, <<Edit(<<4, 1>>, Stone)>>,
                    <<Edit(<<4, 1>>, Stone), Edit(<<6, 1>>, Stone)>>}}
    \cup {<<Edit(<<4, 1>>, Lava("Right")), Edit(<<6, 1>>, Lava("Left"))>>
             \o Floor(2, 8)}
    \cup {<<Edit(<<0, 1>>, Lava("Left"))>> \o Floor(0, 2)}

\* edit requests that build a scene: a water on a stone at (10, 0); four
\* cells to one side of the stone a lava held in place by stones, the
\* floor cell four cells to the other side free or a stone
DiagonalScenes ==
    {<<Edit(<<10, 1>>, Water("Right")), Edit(<<10, 0>>, Stone),
       Edit(<<6, 0>>, Lava("Left"))>>
        \o Floor(4, 5) \o Floor(7, 8) \o beside :
        beside \in {<<>>, <<Edit(<<14, 0>>, Stone)>>}}

\* edit requests that build a scene: a liquid in chunk (0, 1) and, at the
\* far end of its vertical reach in chunk (0, 0), the other liquid of the
\* pair water / acid
PreserveScenes ==
    {<<Edit(<<5, CHUNK_SIZE + 1>>, Acid("Left")),
       Edit(<<5, CHUNK_SIZE - 2>>, Water("Left"))>>,
     <<Edit(<<5, CHUNK_SIZE + 1>>, Water("Left")),
       Edit(<<5, CHUNK_SIZE - 3>>, Acid("Left"))>>}

\* edit requests that build a scene in a map of CHUNK_SIZE columns, where the
\* right edge of the map is the right edge of chunk (0, 0): a lava in the
\* last column on a stone floor, or on a single stone
EdgeScenes ==
    {<<Edit(<<CHUNK_SIZE - 1, 1>>, Lava(d))>> \o Floor(CHUNK_SIZE - 3, CHUNK_SIZE - 1) : d \in Direction}
    \cup {<<Edit(<<CHUNK_SIZE - 1, 1>>, Lava("Right")), Edit(<<CHUNK_SIZE - 1, 0>>, Stone)>>}

Scenes ==
    CornerScenes \cup ColumnScenes \cup SwapScenes \cup CreepScenes
        \cup DiagonalScenes \cup PreserveScenes

\* moves the chunk threads insert into the queue: two targets below the
\* corner of four chunks, sources at distance 1, 2, 2 and 3 of the first
QueueMoves ==
    {[source_pos |-> s, target_pos |-> t, particle |-> Lava("Left")] :
        s \in {<<CHUNK_SIZE - 2, CHUNK_SIZE>>, <<CHUNK_SIZE - 2, CHUNK_SIZE + 1>>,
               <<CHUNK_SIZE - 1, CHUNK_SIZE>>, <<CHUNK_SIZE, CHUNK_SIZE>>},
        t \in {<<CHUNK_SIZE - 2, CHUNK_SIZE - 1>>, <<CHUNK_SIZE - 1, CHUNK_SIZE - 1>>}}

\* particles stacked in a column of the chunk
StackParticles == {None, Water("Still"), Lava("Left"), Acid("Right")}

\* set_particle requests that fill a chunk: three cells at the bottom of
\* column 5, or the two topmost cells of column 7
InteractStacks ==
    {<<[pos |-> <<5, 0>>, particle |-> a], [pos |-> <<5, 1>>, particle |-> b],
       [pos |-> <<5, 2>>, particle |-> c]>> :
        a \in StackParticles, b \in StackParticles, c \in StackParticles}
    \cup {<<[pos |-> <<7, CHUNK_SIZE - 2>>, particle |-> a],
             [pos |-> <<7, CHUNK_SIZE - 1>>, particle |-> b]>> :
            a \in StackParticles, b \in StackParticles}

\* maps of the active-region runs: wide, tall, smaller than the range, and
\* large enough to hold a whole region
RegionMaps == {<<MapWidth, MapHeight>>, <<MapHeight, MapWidth>>, <<3, 2>>, <<26, 27>>}

\* player translations in pixels: left of and below the map, inside it, on
\* its last chunk, and past it
Translations == {0 - 2000, 0, 500, 1300, 2440, 3400, 4000, 4700}

\* depths around the bounds of the Special intervals, and first rolls around
\* the total weights 20 and 23
RollDepths == {0, 22, 23, 79, 80, 100, 149, 150, 151}
Rolls == {0, 2, 3, 19, 20, 22, 23, 999}

\* maps of the edit runs: wide, tall, and of a few cells
EditMaps == {<<MapWidth, MapHeight>>, <<MapHeight, MapWidth>>, <<3, 2>>}

\* world positions of the edit runs: in the first chunk, on both sides of a
\* chunk border in x and in y, and outside the wide or the tall map
EditCells ==
    {<<0, 0>>, <<2, 1>>, <<CHUNK_SIZE - 1, 5>>, <<CHUNK_SIZE, 0>>, <<CHUNK_SIZE + 3, 5>>,
     <<5, CHUNK_SIZE>>, <<5, CHUNK_SIZE + 3>>, <<MapWidth, 0>>}

\* processors of the machine (num_cpus::get()) and widths in chunks handed
\* to Map::generate in the runs of the column partition
MaxCpus == 35
RangeWidths == {1, 2, 3}

---------------------------------------------------------------------------
(* Map::get_chunks_near (world/map.rs) *)

\* u32::div_ceil
div_ceil(a, b) == (a \div b) + (IF a % b = 0 THEN 0 ELSE 1)

\* u32::saturating_sub
saturating_sub(a, b) == Max(a - b, 0)

\* u32::saturating_add; the operands of the model stay below 2^30, where
\* the sum is below u32::MAX
saturating_add(a, b) == a + b

\* floor((2^32 - 1) / a) for a > 1, from M = 2^31 - 1: 2^32 - 1 = 2M + 1
U32MaxDiv(a) ==
    (2 * (2147483647 \div a)) + (((2 * (2147483647 % a)) + 1) \div a)

\* a * b does not fit in a u32
mul_overflows(a, b) == a > 1 /\ b > U32MaxDiv(a)

\* u32 `a * b` without overflow checks: the product modulo 2^32, computed
\* on 16-bit limbs where the product does not fit
wrapping_mul(a, b) ==
    IF ~mul_overflows(a, b) THEN a * b
    ELSE ((((a \div 65536) * (b % 65536)) + ((a % 65536) * (b \div 65536))) % 65536) * 65536
         + ((a % 65536) * (b % 65536))

\* the spacing of the f32 values around n: 1 below 2^24, doubling with
\* every further bit
RECURSIVE f32_ulp(_)
f32_ulp(n) == IF n < 16777216 THEN 1 ELSE 2 * f32_ulp(n \div 2)

\* the cast `as f32` of a u32: round to nearest, ties to even
as_f32(n) ==
    LET u == f32_ulp(n)
        q == n \div u
        r == n % u
    IN  IF 2 * r < u THEN q * u
        ELSE IF 2 * r > u THEN (q + 1) * u
        ELSE IF q % 2 = 0 THEN q * u ELSE (q + 1) * u

\* dx, dy of the loop body
abs_diff(a, b) == IF a > b THEN a - b ELSE b - a

\* Map::get_chunks_near. `panic` is the arithmetic-overflow panic of a
\* build with overflow checks; without them the products wrap.
get_chunks_near(map_width, map_height, position, range, overflow_checks) ==
    LET center_chunk == world_vec2_to_chunk(position)
        chunk_range == div_ceil(range, CHUNK_SIZE)
        min_x == saturating_sub(center_chunk[1], chunk_range)
        max_x == saturating_add(center_chunk[1], chunk_range)
        min_y == saturating_sub(center_chunk[2], chunk_range)
        max_y == saturating_add(center_chunk[2], chunk_range)
        max_chunk_x == div_ceil(map_width, CHUNK_SIZE) - 1
        max_chunk_y == div_ceil(map_height, CHUNK_SIZE) - 1
        \* the x and y that pass the two `continue` tests, in loop order
        nx == Max(Min(max_x, max_chunk_x) - min_x + 1, 0)
        ny == Max(Min(max_y, max_chunk_y) - min_y + 1, 0)
        visited == [k \in 1..(nx * ny) |-> <<min_x + ((k - 1) \div ny), min_y + ((k - 1) % ny)>>]
        dx(c) == abs_diff(center_chunk[1], c[1])
        dy(c) == abs_diff(center_chunk[2], c[2])
        squared_range == as_f32(wrapping_mul(chunk_range, chunk_range))
        in_range(c) == as_f32(wrapping_mul(dx(c), dx(c)) + wrapping_mul(dy(c), dy(c))) <= squared_range
    IN  IF /\ overflow_checks
           /\ \E k \in DOMAIN visited :
                 \/ mul_overflows(dx(visited[k]), dx(visited[k]))
                 \/ mul_overflows(dy(visited[k]), dy(visited[k]))
                 \/ mul_overflows(chunk_range, chunk_range)
        THEN [panic |-> TRUE, nearby_chunks |-> <<>>]
        ELSE [panic |-> FALSE, nearby_chunks |-> SelectSeq(visited, in_range)]

---------------------------------------------------------------------------
(* State machine of the program: edits, active region, refresh, ticks *)

\* an operation record: its name, and for direct Chunk calls the local
\* coordinate, the particle passed or returned, and the chunk before the call
Op(name, pos, particle, pre) ==
    [op |-> name, pos |-> pos, particle |-> particle, pre |-> pre]

MapOp(name) == Op(name, <<0, 0>>, None, NewChunk(<<0, 0>>))

NoTasks == [c \in {} |-> 0]

InitCommon ==
    /\ width = MapWidth
    /\ height = MapHeight
    /\ chunks = EmptyMapChunks
    /\ active_chunks = {}
    /\ water_acid_dir \in {"Left", "Right"}
    /\ pc = "idle"
    /\ tasks = NoTasks
    /\ interchunk_queue = EmptyQueue
    /\ prev = EmptyMapChunks
    /\ applyLog = <<>>
    /\ lastOp = MapOp("init")
    /\ ops = 0
    /\ ticks = 0
    /\ edits = 0
    /\ depthResult = "none"

\* no function call and no world generation under way
NoCall == [fn |-> "none", args |-> <<>>, result |-> <<>>]
NoGen == [phase |-> "none"]

Init ==
    /\ InitCommon
    /\ depth = U32(0)
    /\ call = NoCall
    /\ gen = NoGen

\* an edit request: Map::set_particle_at
SetParticleAt(pos, particle) ==
    /\ pc = "idle"
    /\ edits < MaxEdits
    /\ chunks' = set_particle_at(chunks, pos, particle)
    /\ edits' = edits + 1
    /\ lastOp' = MapOp("set_particle_at")
    /\ UNCHANGED <<active_chunks, water_acid_dir, pc, tasks, interchunk_queue,
                   prev, applyLog, ops, ticks, depth, depthResult, call, gen,
                   width, height>>

\* system update_active_chunks, for a focal position in center_chunk
UpdateActiveChunks(center_chunk) ==
    /\ pc = "idle"
    /\ active_chunks' = ActiveRegion(center_chunk)
    /\ chunks' = update_dirty_chunks(chunks, ActiveRegion(center_chunk))
    /\ lastOp' = MapOp("update_active_chunks")
    /\ UNCHANGED <<water_acid_dir, pc, tasks, interchunk_queue, prev, applyLog,
                   ops, ticks, edits, depth, depthResult, call, gen,
                   width, height>>

\* system update_map_dirty_chunks
UpdateMapDirtyChunks ==
    /\ pc = "idle"
    /\ chunks' = update_dirty_chunks(chunks, active_chunks)
    /\ lastOp' = MapOp("update_dirty_chunks")
    /\ UNCHANGED <<active_chunks, water_acid_dir, pc, tasks, interchunk_queue,
                   prev, applyLog, ops, ticks, edits, depth, depthResult, call, gen,
                   width, height>>

\* Map::simulate_active_chunks, start: a fresh queue, copies of the active
\* chunks, one parallel simulate per copy that has should_simulate
SimulateBegin ==
    /\ pc = "idle"
    /\ ticks < MaxTicks
    /\ pc' = "simulating"
    /\ ticks' = ticks + 1
    /\ prev' = chunks
    /\ interchunk_queue' = EmptyQueue
    /\ applyLog' = <<>>
    /\ tasks' = [c \in {a \in active_chunks : chunks[a].should_simulate} |->
                    [chunk |-> chunks[c],
                     todo |-> CellOrder(DOMAIN chunks[c].cells),
                     new_cells |-> EmptyCells,
                     pending |-> NoMove]]
    /\ lastOp' = MapOp("simulate_begin")
    /\ UNCHANGED <<chunks, active_chunks, water_acid_dir, ops, edits, depth,
                   depthResult, call, gen,
                   width, height>>

\* one iteration of the loops of Chunk::simulate in the thread of chunk c,
\* up to the return of FluidSimulator::simulate
SimulateCell(c) ==
    /\ pc = "simulating"
    /\ c \in DOMAIN tasks
    /\ tasks[c].todo # <<>>
    /\ tasks[c].pending = NoMove
    /\ \E o \in simulate_cell(chunks, tasks[c].chunk, interchunk_queue,
                              tasks[c].new_cells, Head(tasks[c].todo)) :
          tasks' = [tasks EXCEPT ![c] = [@ EXCEPT !.todo = Tail(@),
                                                  !.new_cells = o.new_cells,
                                                  !.pending = o.interchunk_move]]
    /\ lastOp' = MapOp("simulate_cell")
    /\ UNCHANGED <<chunks, active_chunks, water_acid_dir, pc, interchunk_queue,
                   prev, applyLog, ops, ticks, edits, depth, depthResult, call, gen,
                   width, height>>

\* the thread of chunk c puts the move it was handed into the queue
QueueEntry(c) ==
    /\ pc = "simulating"
    /\ c \in DOMAIN tasks
    /\ tasks[c].pending # NoMove
    /\ interchunk_queue' = queue_entry(interchunk_queue, tasks[c].pending)
    /\ tasks' = [tasks EXCEPT ![c] = [@ EXCEPT !.pending = NoMove]]
    /\ lastOp' = MapOp("queue_entry")
    /\ UNCHANGED <<chunks, active_chunks, water_acid_dir, pc, prev, applyLog,
                   ops, ticks, edits, depth, depthResult, call, gen,
                   width, height>>

\* the chunks after "for new_chunk in updated_chunks { set_chunk_at(..) }"
Committed ==
    [c \in DOMAIN chunks |->
        IF c \in DOMAIN tasks
        THEN simulate_finish(tasks[c].chunk, tasks[c].new_cells)
        ELSE chunks[c]]

\* Map::simulate_active_chunks, end: every simulate has returned; commit
\* the updated chunks, then apply_particle_moves
SimulateCommit ==
    /\ pc = "simulating"
    /\ \A c \in DOMAIN tasks : tasks[c].todo = <<>> /\ tasks[c].pending = NoMove
    /\ chunks' = apply_particle_moves(Committed, interchunk_queue)
    /\ applyLog' =
         LET moves == SortMoves(interchunk_queue, DOMAIN interchunk_queue)
         IN  PlaceLog(ClearSources(Committed, moves), moves)
    /\ interchunk_queue' = EmptyQueue
    /\ tasks' = NoTasks
    /\ pc' = "idle"
    /\ lastOp' = MapOp("tick")
    /\ UNCHANGED <<active_chunks, water_acid_dir, prev, ops, ticks, edits,
                   depth, depthResult, call, gen,
                   width, height>>

Next ==
    \/ \E pos \in EditPositions, particle \in EditParticles :
          SetParticleAt(pos, particle)
    \/ \E center_chunk \in FocalChunks : UpdateActiveChunks(center_chunk)
    \/ UpdateMapDirtyChunks
    \/ SimulateBegin
    \/ \E c \in ChunkCoords : SimulateCell(c)
    \/ \E c \in ChunkCoords : QueueEntry(c)
    \/ SimulateCommit

Spec == Init /\ [][Next]_vars

---------------------------------------------------------------------------
(* Direct calls of the Chunk API on one chunk of an otherwise empty map *)

InitChunk ==
    /\ InitCommon
    /\ depth = U32(0)
    /\ call = NoCall
    /\ gen = NoGen

ChunkUnchanged ==
    UNCHANGED <<active_chunks, water_acid_dir, pc, tasks, prev, applyLog,
                ticks, edits, depth, depthResult, call, gen,
                   width, height>>

\* chunk.set_particle(local_pos, particle)
ChunkSetParticle(local_pos, particle) ==
    /\ ops < MaxOps
    /\ ops' = ops + 1
    /\ chunks' = [chunks EXCEPT ![TestChunk] = set_particle(@, local_pos, particle)]
    /\ lastOp' = Op("set_particle", local_pos, particle, chunks[TestChunk])
    /\ UNCHANGED interchunk_queue
    /\ ChunkUnchanged

\* chunk.get_particle(local_pos)
ChunkGetParticle(local_pos) ==
    /\ ops < MaxOps
    /\ ops' = ops + 1
    /\ lastOp' = Op("get_particle", local_pos,
                    get_particle(chunks[TestChunk], local_pos), chunks[TestChunk])
    /\ UNCHANGED <<chunks, interchunk_queue,
                   width, height>>
    /\ ChunkUnchanged

\* chunk.trigger_refresh()
ChunkTriggerRefresh ==
    /\ ops < MaxOps
    /\ ops' = ops + 1
    /\ chunks' = [chunks EXCEPT ![TestChunk] = trigger_refresh(@)]
    /\ lastOp' = Op("trigger_refresh", <<0, 0>>, None, chunks[TestChunk])
    /\ UNCHANGED interchunk_queue
    /\ ChunkUnchanged

\* chunk.simulate(&map, queue): the chunk becomes the returned chunk
ChunkSimulate ==
    /\ ops < MaxOps
    /\ ops' = ops + 1
    /\ \E o \in simulate(chunks, chunks[TestChunk], interchunk_queue) :
          /\ chunks' = [chunks EXCEPT ![TestChunk] = o.chunk]
          /\ interchunk_queue' = o.queue
    /\ lastOp' = Op("simulate", <<0, 0>>, None, chunks[TestChunk])
    /\ ChunkUnchanged

NextChunk ==
    \/ \E local_pos \in LocalSamples, particle \in LocalParticles :
          ChunkSetParticle(local_pos, particle)
    \/ \E local_pos \in LocalSamples : ChunkGetParticle(local_pos)
    \/ ChunkTriggerRefresh
    \/ ChunkSimulate

SpecChunk == InitChunk /\ [][NextChunk]_vars

---------------------------------------------------------------------------
(* Calls of Common::get_exclusive_at_depth *)

InitDepth ==
    /\ InitCommon
    /\ depth \in DepthSamples
    /\ call = NoCall
    /\ gen = NoGen

CallGetExclusiveAtDepth ==
    /\ depthResult = "none"
    /\ depthResult' = get_exclusive_at_depth(depth)
    /\ lastOp' = MapOp("get_exclusive_at_depth")
    /\ UNCHANGED <<chunks, active_chunks, water_acid_dir, pc, tasks,
                   interchunk_queue, prev, applyLog, ops, ticks, edits, depth,
                   call, gen,
                   width, height>>

NextDepth == CallGetExclusiveAtDepth

SpecDepth == InitDepth /\ [][NextDepth]_vars

---------------------------------------------------------------------------
(* Lookups in INTERACTION_RULES *)

InitRules ==
    /\ InitCommon
    /\ depth = U32(0)
    /\ gen = NoGen
    /\ call \in {[fn |-> "rules_get", args |-> <<a, b>>, result |-> <<>>] :
                   a \in Particle, b \in Particle}

\* the pair is looked up in the order given and in the opposite order
LookupRule ==
    /\ call.fn = "rules_get"
    /\ call.result = <<>>
    /\ call' = [call EXCEPT !.result =
                   <<rules_get(water_acid_dir, call.args[1], call.args[2]),
                     rules_get(water_acid_dir, call.args[2], call.args[1])>>]
    /\ lastOp' = MapOp("rules_get")
    /\ UNCHANGED <<chunks, active_chunks, water_acid_dir, pc, tasks,
                   interchunk_queue, prev, applyLog, ops, ticks, edits, depth,
                   depthResult, gen,
                   width, height>>

NextRules == LookupRule

SpecRules == InitRules /\ [][NextRules]_vars

---------------------------------------------------------------------------
(* Calls of spawn_vein *)

\* the program at rest: an empty map, nothing simulated
InitQuiet ==
    /\ width = MapWidth
    /\ height = MapHeight
    /\ chunks = EmptyMapChunks
    /\ active_chunks = {}
    /\ water_acid_dir = "Left"
    /\ pc = "idle"
    /\ tasks = NoTasks
    /\ interchunk_queue = EmptyQueue
    /\ prev = EmptyMapChunks
    /\ applyLog = <<>>
    /\ lastOp = MapOp("init")
    /\ ops = 0
    /\ ticks = 0
    /\ edits = 0
    /\ depth = U32(0)
    /\ depthResult = "none"

InitVein ==
    /\ InitQuiet
    /\ gen = NoGen
    /\ call \in {[fn |-> "spawn_vein",
                   args |-> [position |-> position, particle |-> Gold,
                             map_width |-> CHUNK_SIZE, map_height |-> CHUNK_SIZE,
                             rng |-> rng],
                   result |-> <<>>] :
                   position \in VeinPositions, rng \in VeinRngs}

CallSpawnVein ==
    /\ call.fn = "spawn_vein"
    /\ call.result = <<>>
    /\ call' = [call EXCEPT !.result =
                   spawn_vein(call.args.position, call.args.particle,
                              call.args.map_width, call.args.map_height,
                              call.args.rng)]
    /\ lastOp' = MapOp("spawn_vein")
    /\ UNCHANGED <<chunks, active_chunks, water_acid_dir, pc, tasks,
                   interchunk_queue, prev, applyLog, ops, ticks, edits, depth,
                   depthResult, gen,
                   width, height>>

NextVein == CallSpawnVein

SpecVein == InitVein /\ [][NextVein]_vars

---------------------------------------------------------------------------
(* Map::generate: one step per worker thread of generate_all_data, then the *)
(* join and the distribution into the Map                                   *)

\* generate_all_data up to the spawning of the workers
GenStart(input) ==
    LET map_width == input.width * CHUNK_SIZE
        map_height == input.height * CHUNK_SIZE
    IN  [phase |-> "workers",
         input |-> input,
         map_width |-> map_width,
         map_height |-> map_height,
         surface_heights |-> calculate_surface_heights(map_width, map_height),
         chunks_width |-> chunk_count_width(map_width),
         chunks |-> create_empty_chunks(chunk_count_width(map_width),
                                        chunk_count_height(map_height)),
         todo |-> 0..(input.num_cpus - 1),
         written |-> [t \in 0..(input.num_cpus - 1) |-> {}],
         placed |-> [t \in 0..(input.num_cpus - 1) |-> {}],
         map |-> Map_empty(0, 0)]

InitGen ==
    /\ InitQuiet
    /\ call = NoCall
    /\ gen \in {GenStart(input) : input \in GenInputs}

\* the worker thread thread_id runs process_columns_range to its end
GenWorker(thread_id) ==
    /\ gen.phase = "workers"
    /\ thread_id \in gen.todo
    /\ LET start_x == thread_start_x(thread_id, gen.map_width, gen.input.num_cpus)
           end_x == thread_end_x(thread_id, gen.map_width, gen.input.num_cpus)
           others == UNION {gen.written[t] : t \in (DOMAIN gen.written) \ {thread_id}}
       IN  \E rolls \in RollPlans({c \in OreCells : c[1] >= start_x /\ c[1] < end_x}),
              stale \in SUBSET {c \in others : c[1] >= start_x /\ c[1] < end_x} :
               LET st == process_columns_range(
                             [chunks |-> gen.chunks, written |-> {}, placed |-> {}],
                             start_x, end_x, gen.surface_heights, gen.map_width,
                             gen.map_height, gen.chunks_width, rolls, stale)
               IN  gen' = [gen EXCEPT !.chunks = st.chunks,
                                      !.written[thread_id] = st.written,
                                      !.placed[thread_id] = st.placed,
                                      !.todo = @ \ {thread_id}]
    /\ lastOp' = MapOp("process_columns_range")
    /\ UNCHANGED <<chunks, active_chunks, water_acid_dir, pc, tasks,
                   interchunk_queue, prev, applyLog, ops, ticks, edits, depth,
                   depthResult, call,
                   width, height>>

\* every handle joined; Map::generate distributes the chunks into the Map
GenFinish ==
    /\ gen.phase = "workers"
    /\ gen.todo = {}
    /\ gen' = [gen EXCEPT !.phase = "done",
                          !.map = distribute_among_chunks(
                                      Map_empty(gen.map_width, gen.map_height),
                                      gen.chunks)]
    /\ lastOp' = MapOp("generate")
    /\ UNCHANGED <<chunks, active_chunks, water_acid_dir, pc, tasks,
                   interchunk_queue, prev, applyLog, ops, ticks, edits, depth,
                   depthResult, call,
                   width, height>>

NextGen ==
    \/ \E thread_id \in gen.todo : GenWorker(thread_id)
    \/ GenFinish

SpecGen == InitGen /\ [][NextGen]_vars

---------------------------------------------------------------------------
(* Ticks on a scene: a map of four chunks built by edit requests and *)
(* refreshed, every random direction of a tick drawn alike            *)

RECURSIVE ApplyEdits(_, _)
ApplyEdits(cs, scene) ==
    IF scene = <<>> THEN cs
    ELSE ApplyEdits(set_particle_at(cs, Head(scene).pos, Head(scene).particle),
                    Tail(scene))

InitScene ==
    /\ \E m \in {[width |-> SceneWidth, scenes |-> Scenes], [width |-> CHUNK_SIZE, scenes |-> EdgeScenes]} :
          /\ width = m.width
          /\ height = SceneHeight
          /\ active_chunks = ActiveRegion(<<0, 0>>)
          /\ \E scene \in m.scenes :
                \E edited \in {ApplyEdits(Map_empty(m.width, SceneHeight).chunks, scene)} :
                   chunks = update_dirty_chunks(edited, active_chunks)
    /\ water_acid_dir = "Left"
    /\ pc = "idle"
    /\ tasks = NoTasks
    /\ interchunk_queue = EmptyQueue
    /\ prev = chunks
    /\ applyLog = <<>>
    /\ lastOp = MapOp("init")
    /\ ops = 0
    /\ ticks = 0
    /\ edits = 0
    /\ depth = U32(0)
    /\ depthResult = "none"
    /\ gen = NoGen
    /\ call \in {[fn |-> "simulate_active_chunks",
                   args |-> [random_direction |-> d], result |-> <<>>] :
                   d \in {0, 1}}

\* one iteration of the loops of Chunk::simulate in the thread of chunk c,
\* up to the return of FluidSimulator::simulate
SimulateCellDrawn(c) ==
    /\ pc = "simulating"
    /\ c \in DOMAIN tasks
    /\ tasks[c].todo # <<>>
    /\ tasks[c].pending = NoMove
    /\ \E o \in {simulate_cell_drawn(chunks, tasks[c].chunk, interchunk_queue,
                                     tasks[c].new_cells, Head(tasks[c].todo),
                                     call.args.random_direction)} :
           /\ tasks' = [tasks EXCEPT ![c] = [@ EXCEPT !.todo = Tail(@),
                                                      !.new_cells = o.handled.new_cells,
                                                      !.pending = o.handled.interchunk_move]]
           /\ lastOp' = [op |-> "simulate_cell", pos |-> o.source_pos,
                         particle |-> tasks[c].chunk.cells[Head(tasks[c].todo)],
                         pre |-> tasks[c].chunk,
                         new_pos |-> o.new_pos, new_particle |-> o.new_particle]
    /\ UNCHANGED <<chunks, active_chunks, water_acid_dir, pc, interchunk_queue,
                   prev, applyLog, ops, ticks, edits, depth, depthResult, call, gen,
                   width, height>>

NextScene ==
    \/ UpdateMapDirtyChunks
    \/ SimulateBegin
    \/ \E c \in DOMAIN tasks : SimulateCellDrawn(c)
    \/ \E c \in DOMAIN tasks : QueueEntry(c)
    \/ SimulateCommit

SpecScene == InitScene /\ [][NextScene]_vars

---------------------------------------------------------------------------
(* Insertions into the cross-chunk queue of one tick; call.args is the *)
(* sequence of the moves inserted so far                              *)

InitQueue ==
    /\ InitQuiet
    /\ gen = NoGen
    /\ call = [fn |-> "queue_entry", args |-> <<>>, result |-> <<>>]

CallQueueEntry(particle_move) ==
    /\ call.fn = "queue_entry"
    /\ ops < MaxOps
    /\ ops' = ops + 1
    /\ interchunk_queue' = queue_entry(interchunk_queue, particle_move)
    /\ call' = [call EXCEPT !.args = Append(@, particle_move)]
    /\ lastOp' = MapOp("queue_entry")
    /\ UNCHANGED <<chunks, active_chunks, water_acid_dir, pc, tasks, prev,
                   applyLog, ticks, edits, depth, depthResult, gen,
                   width, height>>

NextQueue == \E particle_move \in QueueMoves : CallQueueEntry(particle_move)

SpecQueue == InitQueue /\ [][NextQueue]_vars

---------------------------------------------------------------------------
(* Calls of Chunk::process_interactions on one chunk *)

RECURSIVE SetParticles(_, _)
SetParticles(chunk, requests) ==
    IF requests = <<>> THEN chunk
    ELSE SetParticles(set_particle(chunk, Head(requests).pos, Head(requests).particle),
                      Tail(requests))

InitInteract ==
    /\ width = MapWidth
    /\ height = MapHeight
    /\ \E requests \in InteractStacks :
          chunks = [EmptyMapChunks EXCEPT ![TestChunk] = SetParticles(@, requests)]
    /\ active_chunks = {}
    /\ water_acid_dir \in {"Left", "Right"}
    /\ pc = "idle"
    /\ tasks = NoTasks
    /\ interchunk_queue = EmptyQueue
    /\ prev = EmptyMapChunks
    /\ applyLog = <<>>
    /\ lastOp = MapOp("init")
    /\ ops = 0
    /\ ticks = 0
    /\ edits = 0
    /\ depth = U32(0)
    /\ depthResult = "none"
    /\ gen = NoGen
    /\ call = NoCall

\* chunk.process_interactions()
CallProcessInteractions ==
    /\ ops < MaxOps
    /\ ops' = ops + 1
    /\ chunks' = [chunks EXCEPT ![TestChunk] = process_interactions(@)]
    /\ lastOp' = Op("process_interactions", <<0, 0>>, None, chunks[TestChunk])
    /\ UNCHANGED interchunk_queue
    /\ ChunkUnchanged

NextInteract == CallProcessInteractions

SpecInteract == InitInteract /\ [][NextInteract]_vars

---------------------------------------------------------------------------
(* The active-region system on maps of several sizes *)

InitRegion ==
    /\ \E m \in RegionMaps :
          /\ width = m[1]
          /\ height = m[2]
          /\ chunks = Map_empty(m[1], m[2]).chunks
          /\ prev = Map_empty(m[1], m[2]).chunks
    /\ active_chunks = {}
    /\ water_acid_dir = "Left"
    /\ pc = "idle"
    /\ tasks = NoTasks
    /\ interchunk_queue = EmptyQueue
    /\ applyLog = <<>>
    /\ lastOp = MapOp("init")
    /\ ops = 0
    /\ ticks = 0
    /\ edits = 0
    /\ depth = U32(0)
    /\ depthResult = "none"
    /\ gen = NoGen
    /\ call = NoCall

\* system update_active_chunks with the player at a translation
UpdateActiveChunksAt(translation) ==
    \E center_chunk \in {world_vec2_to_chunk(screen_to_world(translation, width, height))} :
        /\ active_chunks' = ActiveRegion(center_chunk)
        /\ chunks' = update_dirty_chunks(chunks, ActiveRegion(center_chunk))
        /\ lastOp' = MapOp("update_active_chunks")
        /\ call' = [fn |-> "update_active_chunks", args |-> [translation |-> translation], result |-> center_chunk]
        /\ UNCHANGED <<water_acid_dir, pc, tasks, interchunk_queue, prev, applyLog,
                       ops, ticks, edits, depth, depthResult, gen, width, height>>

NextRegion == \E tx \in Translations, ty \in Translations : UpdateActiveChunksAt(<<tx, ty>>)

SpecRegion == InitRegion /\ [][NextRegion]_vars

---------------------------------------------------------------------------
(* Calls of Map::roll_special_particle *)

InitRoll ==
    /\ InitQuiet
    /\ gen = NoGen
    /\ call = NoCall

\* Map::roll_special_particle(d, rng): the rng returns roll, and random_val
\* out of 0..total_weight when the second draw is made
CallRollSpecialParticle(d, roll) ==
    \E total_weight \in {sum_spawn_chance(SelectSeq(all_variants, LAMBDA p : U32Ge(U32(d), special_min_depth(p)) /\ U32Lt(U32(d), special_max_depth(p))))} :
    \E random_val \in 0..Max(total_weight - 1, 0) :
        /\ call.fn = "none"
        /\ (roll >= total_weight) => (random_val = 0)
        /\ call' = [fn |-> "roll_special_particle", args |-> [depth |-> d, roll |-> roll, random_val |-> random_val, total_weight |-> total_weight], result |-> roll_special_particle(d, roll, random_val)]
        /\ lastOp' = MapOp("roll_special_particle")
        /\ UNCHANGED <<chunks, active_chunks, water_acid_dir, pc, tasks, interchunk_queue, prev, applyLog,
                       ops, ticks, edits, depth, depthResult, gen, width, height>>

NextRoll == \E d \in RollDepths, roll \in Rolls : CallRollSpecialParticle(d, roll)

SpecRoll == InitRoll /\ [][NextRoll]_vars

---------------------------------------------------------------------------
(* Map::set_particle_at on maps of several sizes *)

InitEdit ==
    /\ \E m \in EditMaps :
          /\ width = m[1]
          /\ height = m[2]
          /\ chunks = Map_empty(m[1], m[2]).chunks
          /\ prev = Map_empty(m[1], m[2]).chunks
    /\ active_chunks = {}
    /\ water_acid_dir = "Left"
    /\ pc = "idle"
    /\ tasks = NoTasks
    /\ interchunk_queue = EmptyQueue
    /\ applyLog = <<>>
    /\ lastOp = MapOp("init")
    /\ ops = 0
    /\ ticks = 0
    /\ edits = 0
    /\ depth = U32(0)
    /\ depthResult = "none"
    /\ gen = NoGen
    /\ call = NoCall

\* map.set_particle_at(position, particle)
CallSetParticleAt(position, particle) ==
    /\ edits < MaxEdits
    /\ edits' = edits + 1
    /\ chunks' = set_particle_at(chunks, position, particle)
    /\ call' = [fn |-> "set_particle_at", args |-> [position |-> position, particle |-> particle], result |-> <<>>]
    /\ lastOp' = MapOp("set_particle_at")
    /\ UNCHANGED <<active_chunks, water_acid_dir, pc, tasks, interchunk_queue, prev, applyLog,
                   ops, ticks, depth, depthResult, gen, width, height>>

NextEdit == \E position \in EditCells, particle \in EditParticles : CallSetParticleAt(position, particle)

SpecEdit == InitEdit /\ [][NextEdit]_vars

---------------------------------------------------------------------------
(* The column ranges generate_all_data hands to its worker threads *)

InitRanges ==
    /\ InitQuiet
    /\ gen = NoGen
    /\ call \in {[fn |-> "generate_all_data",
                   args |-> [map_width |-> w * CHUNK_SIZE, num_cpus |-> n, overflow_checks |-> b],
                   result |-> <<>>] : w \in RangeWidths, n \in 1..MaxCpus, b \in BOOLEAN}

\* the loop "for thread_id in 0..num_cpus" and what each thread visits
CallColumnRanges ==
    /\ call.fn = "generate_all_data"
    /\ call.result = <<>>
    /\ call' = [call EXCEPT !.result =
                   [thread_id \in 0..(call.args.num_cpus - 1) |->
                       [start_x |-> thread_start_x(thread_id, call.args.map_width, call.args.num_cpus),
                        end_x |-> thread_end_x(thread_id, call.args.map_width, call.args.num_cpus),
                        columns |-> columns_of_range(thread_start_x(thread_id, call.args.map_width, call.args.num_cpus),
                                                     thread_end_x(thread_id, call.args.map_width, call.args.num_cpus),
                                                     call.args.map_width, call.args.overflow_checks)]]]
    /\ lastOp' = MapOp("generate_all_data")
    /\ UNCHANGED <<chunks, active_chunks, water_acid_dir, pc, tasks, interchunk_queue, prev, applyLog,
                   ops, ticks, edits, depth, depthResult, gen, width, height>>

NextRanges == CallColumnRanges

SpecRanges == InitRanges /\ [][NextRanges]_vars

---------------------------------------------------------------------------
(* The loop of the schedule on a map that holds one liquid: refresh the
   dirty active chunks, then simulate the active chunks, for ever *)

FallWidth == 3

\* two and three rows of chunks that hold cells
FallHeights == {CHUNK_SIZE + 2, (2 * CHUNK_SIZE) + 2}

FallLiquids == {Lava("Left"), Water("Right"), Acid("Left")}

\* Map::empty, one set_particle_at of a liquid in the top rows, and every
\* chunk of the map in the public field active_chunks
InitFall ==
    /\ width = FallWidth
    /\ height \in FallHeights
    /\ \E x \in {0, FallWidth - 1}, dy \in {1, 2}, particle \in FallLiquids :
          /\ call = [fn |-> "set_particle_at",
                     args |-> [position |-> <<x, height - dy>>, particle |-> particle],
                     result |-> <<>>]
          /\ \E empty \in {Map_empty(width, height).chunks} :
                /\ chunks = set_particle_at(empty, <<x, height - dy>>, particle)
                /\ active_chunks = DOMAIN empty
    /\ water_acid_dir = "Left"
    /\ pc = "idle"
    /\ tasks = NoTasks
    /\ interchunk_queue = EmptyQueue
    /\ prev = chunks
    /\ applyLog = <<>>
    /\ lastOp = MapOp("init")
    /\ ops = 0
    /\ ticks = 0
    /\ edits = 0
    /\ depth = U32(0)
    /\ depthResult = "none"
    /\ gen = NoGen

\* first half of the loop: system update_map_dirty_chunks
LoopRefresh ==
    /\ pc = "idle"
    /\ pc' = "refreshed"
    /\ chunks' = update_dirty_chunks(chunks, active_chunks)
    /\ lastOp' = MapOp("update_dirty_chunks")
    /\ UNCHANGED <<active_chunks, water_acid_dir, tasks, interchunk_queue,
                   prev, applyLog, ops, ticks, edits, depth, depthResult, call, gen,
                   width, height>>

\* second half of the loop: system simulate_active_particles, start of
\* Map::simulate_active_chunks
LoopSimulate ==
    /\ pc = "refreshed"
    /\ pc' = "simulating"
    /\ prev' = chunks
    /\ interchunk_queue' = EmptyQueue
    /\ applyLog' = <<>>
    /\ tasks' = [c \in {a \in active_chunks : chunks[a].should_simulate} |->
                    [chunk |-> chunks[c],
                     todo |-> CellOrder(DOMAIN chunks[c].cells),
                     new_cells |-> EmptyCells,
                     pending |-> NoMove]]
    /\ lastOp' = MapOp("simulate_begin")
    /\ UNCHANGED <<chunks, active_chunks, water_acid_dir, ops, ticks, edits, depth,
                   depthResult, call, gen,
                   width, height>>

NextFall ==
    \/ LoopRefresh
    \/ LoopSimulate
    \/ \E c \in DOMAIN tasks : SimulateCell(c)
    \/ \E c \in DOMAIN tasks : QueueEntry(c)
    \/ SimulateCommit

\* the schedule runs both systems again and again and every chunk thread
\* of a tick runs to its end
SpecFall == InitFall /\ [][NextFall]_vars /\ WF_vars(NextFall)

---------------------------------------------------------------------------
(* Calls of Map::get_chunks_near *)

\* width and height of the maps, in particles: grids of 1 x 1, 2 x 2 and
\* 3 x 1 chunks
NearMaps == {<<CHUNK_SIZE, 1>>, <<CHUNK_SIZE + 3, CHUNK_SIZE + 2>>, <<3 * CHUNK_SIZE, CHUNK_SIZE>>}

\* positions left of the map, in each chunk column, and right of the map
NearPositions == {<<0 - 5, 0>>, <<0, 0>>, <<CHUNK_SIZE + 8, 10>>, <<(2 * CHUNK_SIZE) + 6, CHUNK_SIZE + 8>>, <<6 * CHUNK_SIZE, 0>>}

\* ranges of 0, 1, 2 and 4096 chunks, and the least range of 65536 chunks
NearRanges == {0, 1, CHUNK_SIZE, CHUNK_SIZE + 1, 2 * CHUNK_SIZE, 4096 * CHUNK_SIZE, (65535 * CHUNK_SIZE) + 1}

InitNear ==
    /\ \E m \in NearMaps : width = m[1] /\ height = m[2]
    /\ chunks = EmptyMapChunks
    /\ active_chunks = {}
    /\ water_acid_dir = "Left"
    /\ pc = "idle"
    /\ tasks = NoTasks
    /\ interchunk_queue = EmptyQueue
    /\ prev = EmptyMapChunks
    /\ applyLog = <<>>
    /\ lastOp = MapOp("init")
    /\ ops = 0
    /\ ticks = 0
    /\ edits = 0
    /\ depth = U32(0)
    /\ depthResult = "none"
    /\ gen = NoGen
    /\ call \in {[fn |-> "get_chunks_near",
                   args |-> [position |-> p, range |-> r, overflow_checks |-> b],
                   result |-> <<>>] : p \in NearPositions, r \in NearRanges, b \in BOOLEAN}

CallGetChunksNear ==
    /\ call.fn = "get_chunks_near"
    /\ call.result = <<>>
    /\ call' = [call EXCEPT !.result =
                   <<get_chunks_near(width, height, call.args.position, call.args.range, call.args.overflow_checks)>>]
    /\ lastOp' = MapOp("get_chunks_near")
    /\ UNCHANGED <<chunks, active_chunks, water_acid_dir, pc, tasks, interchunk_queue, prev, applyLog,
                   ops, ticks, edits, depth, depthResult, gen, width, height>>

NextNear == CallGetChunksNear

SpecNear == InitNear /\ [][NextNear]_vars

---------------------------------------------------------------------------
(* Properties *)

LocalCoords == (0..(CHUNK_SIZE - 1)) \X (0..(CHUNK_SIZE - 1))

\* the occupied cells of a map, as (chunk coordinate, local coordinate)
Occupied(cs) ==
    UNION {{<<c, q>> : q \in DOMAIN cs[c].cells} : c \in DOMAIN cs}

\* number of particles of the kind of p in the map
KindCount(cs, p) ==
    Cardinality({o \in Occupied(cs) : ParticleEq(cs[o[1]].cells[o[2]], p)})

\* no two particles of the map form a pair that has an interaction rule
NoInteractionPair(cs) ==
    \A o1 \in Occupied(cs), o2 \in Occupied(cs) :
        ~rules_contains_key(water_acid_dir, cs[o1[1]].cells[o1[2]],
                            cs[o2[1]].cells[o2[2]])

HasLiquid(chunk) ==
    \E q \in LocalCoords : IsLiquid(get_particle(chunk, q))

\* C1: a full tick on a map without interaction-capable pairs leaves the
\* number of particles of every kind unchanged.
C1_ParticlesConserved ==
    (lastOp.op = "tick" /\ NoInteractionPair(prev))
        => \A p \in Particle : KindCount(chunks, p) = KindCount(prev, p)

\* C2: the apply phase writes a queued move's particle to its target cell
\* only if the cell is unoccupied at that moment.
C2_PlacedOnlyIfEmpty ==
    \A i \in 1..Len(applyLog) :
        applyLog[i].wrote => applyLog[i].found = None

\* the map holds exactly one particle, a liquid, at world position w, in an
\* active chunk that is flagged for simulation
SingleLiquidAt(cs, w) ==
    /\ Occupied(cs) = {<<world_to_chunk(w), world_to_local(w)>>}
    /\ IsLiquid(get_particle_at(cs, w))
    /\ world_to_chunk(w) \in active_chunks
    /\ cs[world_to_chunk(w)].should_simulate

WorldCoords == (0..(MapWidth - 1)) \X (0..(MapHeight - 1))

\* C3: a lone liquid of viscosity v at (x, y) is at (x, y-v) after one tick
\* when y >= v, and at row 0 when y < v.
C3_FallsViscosityCells ==
    \A w \in WorldCoords :
        (lastOp.op = "tick" /\ SingleLiquidAt(prev, w))
            => LET v == get_viscosity(get_particle_at(prev, w)) IN
               IF w[2] >= v
               THEN IsLiquid(get_particle_at(chunks, <<w[1], w[2] - v>>))
               ELSE \E x \in 0..(MapWidth - 1) :
                       IsLiquid(get_particle_at(chunks, <<x, 0>>))

\* Water is no longer at local (5, 5) and is in a row below row 5
WaterBelowStart(chunk) ==
    /\ get_particle(chunk, <<5, 5>>) = None
    /\ \E q \in LocalCoords :
          q[2] < 5 /\ ParticleEq(get_particle(chunk, q), Water("Still"))

\* C4 as stated: empty chunk, set_particle((5,5), Water(Still)), then one
\* simulate pass: the water is below row 5 and not at (5, 5).
C4_WaterFallsAfterSet ==
    [][(lastOp'.op = "simulate"
         /\ chunks[TestChunk] =
               set_particle(NewChunk(TestChunk), <<5, 5>>, Water("Still")))
        => WaterBelowStart(chunks'[TestChunk])]_vars

\* C4 amended: empty chunk, set_particle((5,5), Water(Still)),
\* trigger_refresh, then one simulate pass: the water is below row 5 and
\* not at (5, 5).
C4_WaterFallsAfterRefresh ==
    [][(lastOp'.op = "simulate"
         /\ chunks[TestChunk] =
               trigger_refresh(set_particle(NewChunk(TestChunk), <<5, 5>>,
                                            Water("Still"))))
        => WaterBelowStart(chunks'[TestChunk])]_vars

C4_Witness ==
    /\ lastOp.op = "simulate"
    /\ lastOp.pre.cells = [q \in {<<5, 5>>} |-> Water("Still")]
    /\ lastOp.pre.should_simulate
    /\ ~lastOp.pre.dirty
    /\ WaterBelowStart(chunks[TestChunk])

\* the Common variants whose half-open interval contains d
MatchSet(d) ==
    {variant \in {"Dirt", "Stone"} :
        U32Ge(d, min_depth(variant)) /\ U32Lt(d, max_depth(variant))}

\* C5: for every u32 depth exactly one Common interval contains it and
\* get_exclusive_at_depth returns that variant.
C5_ExactlyOneVariant ==
    depthResult # "none"
        => Cardinality(MatchSet(depth)) = 1 /\ depthResult \in MatchSet(depth)

\* C6: get_exclusive_at_depth panics whenever the number of variants whose
\* interval contains the depth is not one.
C6_PanicsUnlessOne ==
    (depthResult # "none" /\ Cardinality(MatchSet(depth)) # 1)
        => depthResult = PanicResult

C6_Witness ==
    /\ depthResult = PanicResult
    /\ MatchSet(depth) = {}

\* C7: set_particle at an in-bounds coordinate, then get_particle there
\* returns the value set, and every other in-bounds cell reads as before.
C7_SetThenGet ==
    [][(lastOp'.op = "set_particle"
         /\ lastOp'.pos[1] < CHUNK_SIZE /\ lastOp'.pos[2] < CHUNK_SIZE)
        => /\ get_particle(chunks'[TestChunk], lastOp'.pos) = lastOp'.particle
           /\ \A q \in LocalCoords \ {lastOp'.pos} :
                 get_particle(chunks'[TestChunk], q) =
                    get_particle(chunks[TestChunk], q)]_vars

C7_Witness ==
    /\ lastOp.op = "set_particle"
    /\ lastOp.pos[1] < CHUNK_SIZE /\ lastOp.pos[2] < CHUNK_SIZE
    /\ lastOp.pos[1] # lastOp.pos[2]
    /\ lastOp.particle # None
    /\ get_particle(chunks[TestChunk], lastOp.pos) = lastOp.particle
    /\ \E q \in LocalCoords \ {lastOp.pos} :
          get_particle(chunks[TestChunk], q) # None

\* C8: with x >= CHUNK_SIZE or y >= CHUNK_SIZE, get_particle returns None
\* and set_particle changes nothing of the chunk.
C8_OutOfBoundsNoOp ==
    [][(lastOp'.pos[1] >= CHUNK_SIZE \/ lastOp'.pos[2] >= CHUNK_SIZE)
        => /\ lastOp'.op = "set_particle" => chunks' = chunks
           /\ lastOp'.op = "get_particle" => lastOp'.particle = None]_vars

C8_Witness ==
    /\ lastOp.op = "set_particle"
    /\ lastOp.pos[1] >= CHUNK_SIZE
    /\ lastOp.particle # None
    /\ lastOp.pre.cells # EmptyCells
    /\ chunks[TestChunk] = lastOp.pre

\* C9: simulate on a chunk whose should_simulate is false changes neither
\* the chunk nor the cross-chunk queue.
C9_SimulateInactiveNoOp ==
    [][(lastOp'.op = "simulate" /\ ~chunks[TestChunk].should_simulate)
        => chunks' = chunks /\ interchunk_queue' = interchunk_queue]_vars

C9_Witness ==
    /\ lastOp.op = "simulate"
    /\ ~lastOp.pre.should_simulate
    /\ HasLiquid(lastOp.pre)
    /\ chunks[TestChunk] = lastOp.pre

\* C10: right after trigger_refresh on a dirty chunk, dirty is false and
\* should_simulate holds exactly if some cell holds a Liquid.
C10_RefreshConsistent ==
    [][(lastOp'.op = "trigger_refresh" /\ chunks[TestChunk].dirty)
        => /\ ~chunks'[TestChunk].dirty
           /\ chunks'[TestChunk].should_simulate <=> HasLiquid(chunks'[TestChunk])]_vars

C10_Witness ==
    /\ lastOp.op = "trigger_refresh"
    /\ lastOp.pre.dirty
    /\ ~chunks[TestChunk].dirty
    /\ chunks[TestChunk].should_simulate
    /\ HasLiquid(chunks[TestChunk])
    /\ \E q \in LocalCoords : get_particle(chunks[TestChunk], q) = Stone

\* C11: looking a pair up in either order finds the same rule or none, and
\* the direction carried by a liquid does not change what is found.
C11_LookupSymmetric ==
    (call.fn = "rules_get" /\ call.result # <<>>)
        => /\ call.result[1] = call.result[2]
           /\ \A a \in Particle, b \in Particle :
                 (/\ a.type = call.args[1].type /\ a.kind = call.args[1].kind
                  /\ b.type = call.args[2].type /\ b.kind = call.args[2].kind)
                    => rules_get(water_acid_dir, a, b) = call.result[1]

C11_Witness ==
    /\ call.fn = "rules_get"
    /\ call.args = <<Lava("Left"), Water("Right")>>
    /\ call.result # <<>>
    /\ call.result[1].result = Obsidian
    /\ call.result[2].result = Obsidian

\* C15: spawn_vein returns 1 to 7 entries; the first is the centre; every
\* other entry is one of the 8 neighbours of the centre and inside the map;
\* every entry carries the particle given.
C15_VeinShape ==
    (call.fn = "spawn_vein" /\ call.result # <<>>)
        => LET r == call.result
               c == call.args.position
           IN  /\ Len(r) >= 1 /\ Len(r) <= 7
               /\ r[1].pos = c
               /\ \A i \in 2..Len(r) :
                     /\ r[i].pos # c
                     /\ Abs(r[i].pos[1] - c[1]) <= 1
                     /\ Abs(r[i].pos[2] - c[2]) <= 1
                     /\ r[i].pos[1] >= 0 /\ r[i].pos[1] < call.args.map_width
                     /\ r[i].pos[2] >= 0 /\ r[i].pos[2] < call.args.map_height
               /\ \A i \in 1..Len(r) : r[i].particle = call.args.particle

\* a vein of 7 entries, and a vein at the corner (0, 0) that lost draws to
\* the bounds test
C15_Witness ==
    /\ call.fn = "spawn_vein"
    /\ call.result # <<>>
    /\ \/ Len(call.result) = 7
       \/ /\ call.args.position = <<0, 0>>
          /\ call.args.rng.vein_size = 6
          /\ Len(call.result) = 4

\* C12: during world generation a worker of the column range
\* [start_x, end_x) writes only cells whose x lies in the range, and no cell
\* is written by two workers.
C12_WorkersDisjoint ==
    (gen.phase # "none")
        => /\ \A t \in DOMAIN gen.written : \A c \in gen.written[t] :
                 /\ c[1] >= thread_start_x(t, gen.map_width, gen.input.num_cpus)
                 /\ c[1] < thread_end_x(t, gen.map_width, gen.input.num_cpus)
           /\ \A t, u \in DOMAIN gen.written :
                 t # u => gen.written[t] \cap gen.written[u] = {}

\* the particle of a world position in the Vec<Chunk> of generate_all_data
GeneratedAt(position) ==
    LET at == world_to_chunk_index(position, gen.chunks_width)
    IN  get_particle(gen.chunks[at.chunk_index + 1], at.local_pos)

\* C14: in a generated world every cell holding a Common particle has its
\* depth surface(x) - y in the interval of its variant, and every cell with
\* y > surface(x) is empty; stated of the Map returned by Map::generate and
\* of the chunks returned by generate_all_data.
C14_GeneratedDepths ==
    (gen.phase = "done")
        => \A x \in 0..(gen.map_width - 1), y \in 0..(gen.map_height - 1) :
             \A r \in {Map_get_particle_at(gen.map, <<x, y>>), GeneratedAt(<<x, y>>)} :
                /\ (r.type = "Common")
                      => /\ y <= gen.surface_heights[x]
                         /\ DepthInRange(U32(gen.surface_heights[x] - y), r.kind)
                /\ (y > gen.surface_heights[x]) => r = None

\* a generated world of one chunk with Dirt at the surface, Stone below it,
\* an empty cell above it and a vein of Gold
C14_Witness ==
    /\ gen.phase = "done"
    /\ gen.input.height = 1
    /\ Map_get_particle_at(gen.map, <<0, gen.surface_heights[0] + 1>>) = None
    /\ Map_get_particle_at(gen.map, <<0, gen.surface_heights[0]>>) = Dirt
    /\ Map_get_particle_at(gen.map, <<0, 5>>) = Stone
    /\ Map_get_particle_at(gen.map, <<16, 2>>) = Gold

\* C16 (as stated): in the generated world of 1 by 2 chunks every cell of
\* column 0 above surface(0) is empty and every cell of the row y = 0 holds
\* Stone.
C16_BottomRowStone ==
    (gen.phase = "done" /\ gen.input.width = 1 /\ gen.input.height = 2)
        => /\ \A y \in 0..(gen.map_height - 1) :
                 (y > gen.surface_heights[0])
                    => Map_get_particle_at(gen.map, <<0, y>>) = None
           /\ \A x \in 0..(gen.map_width - 1) :
                 Map_get_particle_at(gen.map, <<x, 0>>) = Stone

\* C16 (amended): in the generated world of 1 by 2 chunks every cell of
\* column 0 above surface(0) is empty and every cell of the row y = 0 holds
\* Stone or the ore Gold.
C16_BottomRowStoneOrGold ==
    (gen.phase = "done" /\ gen.input.width = 1 /\ gen.input.height = 2)
        => /\ \A y \in 0..(gen.map_height - 1) :
                 (y > gen.surface_heights[0])
                    => Map_get_particle_at(gen.map, <<0, y>>) = None
           /\ \A x \in 0..(gen.map_width - 1) :
                 Map_get_particle_at(gen.map, <<x, 0>>) \in {Stone, Gold}

\* the world of 1 by 2 chunks generated with Gold rolled at (0, 0)
C16_Witness ==
    /\ gen.phase = "done"
    /\ gen.input.width = 1 /\ gen.input.height = 2
    /\ Map_get_particle_at(gen.map, <<0, 0>>) = Gold
    /\ Map_get_particle_at(gen.map, <<1, 0>>) = Stone
    /\ Map_get_particle_at(gen.map, <<0, gen.map_height - 1>>) = None

\* the steps of a simulation tick and of a refresh
TickOrRefresh ==
    {"simulate_begin", "simulate_cell", "queue_entry", "tick",
     "update_dirty_chunks", "update_active_chunks"}

\* C13: a chunk that is not in active_chunks keeps its cells and flags for
\* as long as it stays inactive: no step of a tick (the apply phase
\* included) and no refresh changes it.
C13_InactiveFrozen ==
    [][(lastOp'.op \in TickOrRefresh)
        => \A c \in ChunkCoords :
              (c \notin active_chunks /\ c \notin active_chunks')
                 => chunks'[c] = chunks[c]]_vars

\* the source and target positions of the queued moves
QueuedPositions(queue) ==
    {queue[t].source_pos : t \in DOMAIN queue} \cup DOMAIN queue

\* C17: while chunks are being simulated the Map is unchanged (a simulate
\* writes its own buffer and the queue only), and the tick ends with every
\* simulate returned, every result committed and the queued moves applied
\* to the committed Map: a cell of a simulated chunk that no move touches
\* holds what the chunk's simulate wrote, and every target holds the
\* particle of its move.
C17_CommitBeforeApply ==
    [][/\ (pc = "simulating" /\ pc' = "simulating")
            => /\ chunks' = chunks
               /\ chunks = prev
               /\ \A c \in DOMAIN tasks, d \in DOMAIN tasks :
                     (c # d /\ tasks'[c] # tasks[c]) => tasks'[d] = tasks[d]
       /\ (lastOp'.op = "tick")
            => /\ chunks = prev
               /\ \A c \in DOMAIN tasks :
                     tasks[c].todo = <<>> /\ tasks[c].pending = NoMove
               /\ \A c \in DOMAIN tasks, q \in LocalCoords :
                     (chunk_local_to_world(c, q) \notin QueuedPositions(interchunk_queue))
                        => get_particle(chunks'[c], q) = CellAt(tasks[c].new_cells, q)
               /\ \A t \in DOMAIN interchunk_queue :
                     get_particle_at(chunks', t) = interchunk_queue[t].particle]_vars

\* a tick whose queued move went to a cell of a chunk that was simulated in
\* the same tick and had written that cell itself
C17_Witness ==
    /\ lastOp.op = "tick"
    /\ Len(applyLog) = 1
    /\ applyLog[1].found # None
    /\ world_to_chunk(applyLog[1].target_pos) \in active_chunks
    /\ prev[world_to_chunk(applyLog[1].target_pos)].should_simulate
    /\ get_particle_at(chunks, applyLog[1].target_pos) = applyLog[1].particle

\* C18: with the same map at the start of the tick and the same random
\* choices, the map after the tick is the same for every interleaving of the
\* parallel chunk simulations: it is the map that results when the chunks
\* are simulated one after the other.
C18_ScheduleIndependent ==
    (lastOp.op = "tick" /\ call.fn = "simulate_active_chunks")
        => chunks = simulate_active_chunks_in_order(prev, active_chunks,
                                                    call.args.random_direction)

\* C19: a vertical move never passes through an occupied cell: when a
\* liquid is moved from (x, y) to (x, y') in its own column, every cell
\* strictly between y and y' in column x is empty in the map at the start
\* of the tick.
C19_VerticalUnobstructed ==
    (/\ lastOp.op = "simulate_cell"
     /\ IsLiquid(lastOp.particle)
     /\ lastOp.new_pos[1] = lastOp.pos[1]
     /\ lastOp.new_pos[2] # lastOp.pos[2])
        => \A y \in (Min(lastOp.pos[2], lastOp.new_pos[2]) + 1)
                       .. (Max(lastOp.pos[2], lastOp.new_pos[2]) - 1) :
               get_particle_at(prev, <<lastOp.pos[1], y>>) = None

\* C20: a ParticleMove is put in the cross-chunk queue if and only if the
\* liquid's computed destination lies outside the chunk being simulated; in
\* that case the move's source_pos is inside the chunk and new_cells is not
\* written for the liquid; when the destination is inside the chunk the
\* particle is written to new_cells and nothing is queued.
C20_QueuedIffOutside ==
    [][/\ (lastOp'.op = "simulate_cell" /\ IsLiquid(lastOp'.particle))
            => LET c == lastOp'.pre.position
                   outside == ~is_within_chunk(lastOp'.pre, lastOp'.new_pos)
               IN  /\ outside <=> (tasks'[c].pending # NoMove)
                   /\ outside
                        => /\ is_within_chunk(lastOp'.pre, tasks'[c].pending.source_pos)
                           /\ tasks'[c].pending.target_pos = lastOp'.new_pos
                           /\ tasks'[c].new_cells = tasks[c].new_cells
                   /\ ~outside
                        => /\ CellAt(tasks'[c].new_cells,
                                     world_to_local(lastOp'.new_pos))
                                = lastOp'.new_particle
                           /\ interchunk_queue' = interchunk_queue
       /\ (lastOp'.op = "queue_entry")
            => \A c \in DOMAIN tasks :
                  (tasks[c].pending # NoMove /\ tasks'[c].pending = NoMove)
                     => /\ tasks[c].pending.target_pos \in DOMAIN interchunk_queue'
                        /\ interchunk_queue'[tasks[c].pending.target_pos]
                             = tasks[c].pending]_vars

\* C21: the queue holds at most one move per target position, and of the
\* moves inserted with the same target the one kept has the smallest
\* Manhattan distance among them, the first inserted of those on a tie.
C21_ClosestFirstKept ==
    (call.fn = "queue_entry")
        => /\ DOMAIN interchunk_queue
                = {call.args[i].target_pos : i \in DOMAIN call.args}
           /\ \A t \in DOMAIN interchunk_queue :
                 \E i \in DOMAIN call.args :
                    /\ interchunk_queue[t] = call.args[i]
                    /\ call.args[i].target_pos = t
                    /\ \A j \in DOMAIN call.args :
                          (call.args[j].target_pos = t)
                             => \/ MoveDistance(call.args[i]) < MoveDistance(call.args[j])
                                \/ /\ MoveDistance(call.args[i]) = MoveDistance(call.args[j])
                                   /\ i <= j

\* three moves with one target were inserted, the second as close as the
\* first and the third farther, and the first is the one in the queue
C21_Witness ==
    /\ call.fn = "queue_entry"
    /\ Len(call.args) = 3
    /\ call.args[1].target_pos = call.args[2].target_pos
    /\ call.args[1].target_pos = call.args[3].target_pos
    /\ call.args[1] # call.args[2]
    /\ MoveDistance(call.args[1]) = MoveDistance(call.args[2])
    /\ MoveDistance(call.args[3]) > MoveDistance(call.args[1])
    /\ interchunk_queue[call.args[1].target_pos] = call.args[1]

\* C22: apply_particle_moves clears the source cell of every queued move
\* before it writes any target cell, and writes the targets in ascending
\* order of (target y, target x), whatever the order of insertion was: a
\* target that is the source of a queued move is found empty, any other
\* target is found as committed, and after the call every target holds its
\* move's particle and every source that is no target is empty.
C22_ClearThenPlaceInOrder ==
    [][(lastOp'.op = "tick")
        => /\ {applyLog'[i].target_pos : i \in DOMAIN applyLog'}
                = DOMAIN interchunk_queue
           /\ \A i \in DOMAIN applyLog', j \in DOMAIN applyLog' :
                 (i < j)
                    => \/ applyLog'[i].target_pos[2] < applyLog'[j].target_pos[2]
                       \/ /\ applyLog'[i].target_pos[2] = applyLog'[j].target_pos[2]
                          /\ applyLog'[i].target_pos[1] < applyLog'[j].target_pos[1]
           /\ \A i \in DOMAIN applyLog' :
                 applyLog'[i].found
                    = IF \E t \in DOMAIN interchunk_queue :
                            interchunk_queue[t].source_pos = applyLog'[i].target_pos
                      THEN None
                      ELSE get_particle_at(Committed, applyLog'[i].target_pos)
           /\ \A t \in DOMAIN interchunk_queue :
                 /\ get_particle_at(chunks', t) = interchunk_queue[t].particle
                 /\ (interchunk_queue[t].source_pos \notin DOMAIN interchunk_queue)
                       => get_particle_at(chunks', interchunk_queue[t].source_pos) = None]_vars

\* a tick applied two moves, the target of the first being a cell that held
\* a particle at the start of the tick and was cleared as a source
C22_Witness ==
    /\ lastOp.op = "tick"
    /\ Len(applyLog) = 2
    /\ get_particle_at(prev, applyLog[1].target_pos) # None
    /\ get_particle_at(prev, applyLog[2].target_pos) # None
    /\ applyLog[1].found = None
    /\ applyLog[2].found = None
    /\ get_particle_at(chunks, applyLog[1].target_pos) = applyLog[1].particle
    /\ get_particle_at(chunks, applyLog[2].target_pos) = applyLog[2].particle

\* C23: when a liquid finds no vertical and no diagonal destination and
\* the cell one step in its stored direction is neither empty nor an
\* interaction target, the liquid stays and its direction becomes the
\* opposite one (Still stays Still); when that cell is empty the liquid
\* moves one cell in that direction and keeps its direction.  A cell is
\* empty when it is a cell of the map that holds nothing in the map at the
\* start of the tick and nothing in the in-progress state of the tick
\* (new_cells inside the chunk, the queue outside it).
C23_CreepOrFlip ==
    [][(lastOp'.op = "simulate_cell" /\ IsLiquid(lastOp'.particle))
        => LET fluid == lastOp'.particle
               c == lastOp'.pre.position
               x == lastOp'.pos[1]
               y == lastOp'.pos[2]
               context == Context(chunks, tasks[c].chunk, interchunk_queue,
                                  tasks[c].new_cells)
               cell == <<x + (CASE fluid.dir = "Left" -> 0 - 1
                                [] fluid.dir = "Right" -> 1
                                [] OTHER -> 0), y>>
               in_map == cell[1] >= 0 /\ cell[1] < width /\ cell[2] < height
               empty == /\ in_map
                        /\ get_particle_at(chunks, cell) = None
                        /\ IF world_to_chunk(cell) = c
                           THEN CellAt(tasks[c].new_cells, world_to_local(cell)) = None
                           ELSE cell \notin DOMAIN interchunk_queue
               target == in_map /\ validate_move_interaction(context, cell, fluid)
           IN  (VerticalScan(context, fluid, x, y) = {}
                /\ DiagonalScan(context, fluid, x, y) = {})
                  => /\ (~empty /\ ~target)
                        => /\ lastOp'.new_pos = lastOp'.pos
                           /\ lastOp'.new_particle.kind = fluid.kind
                           /\ lastOp'.new_particle.dir
                                = (CASE fluid.dir = "Left" -> "Right"
                                     [] fluid.dir = "Right" -> "Left"
                                     [] OTHER -> "Still")
                     /\ empty
                        => /\ lastOp'.new_pos = cell
                           /\ lastOp'.new_particle = fluid]_vars

\* a lava with direction Left stayed where it was and now has direction Right
C23_Witness ==
    /\ lastOp.op = "simulate_cell"
    /\ IsLiquid(lastOp.particle)
    /\ lastOp.particle.dir = "Left"
    /\ lastOp.new_pos = lastOp.pos
    /\ lastOp.new_particle.dir = "Right"
    /\ lastOp.pos[1] > 0

\* C24: in the diagonal scan, at the offset the scan stops at, when both
\* the left and the right candidate cell are valid and empty the
\* destination is one of these two cells, the random direction deciding
\* which (0 the right one, 1 the left one); when only one candidate is valid
\* and empty the destination is that one.
C24_DiagonalChoice ==
    [][(lastOp'.op = "simulate_cell" /\ IsLiquid(lastOp'.particle))
        => LET fluid == lastOp'.particle
               c == lastOp'.pre.position
               x == lastOp'.pos[1]
               y == lastOp'.pos[2]
               context == Context(chunks, tasks[c].chunk, interchunk_queue,
                                  tasks[c].new_cells)
           IN  \A o \in ScanOffsets(fluid) :
                  LET right == <<Max(x - o, 0), Max(y - 1, 0)>>
                      left == <<x + o, Max(y - 1, 0)>>
                      ER == validate_move_empty(context, right)
                      EL == validate_move_empty(context, left)
                  IN  (/\ VerticalScan(context, fluid, x, y) = {}
                       /\ \A o2 \in ScanOffsets(fluid) :
                             (o2 > o) => DiagonalAt(context, fluid, x, y, o2) = {})
                         => /\ (ER /\ EL)
                               => /\ lastOp'.new_particle = fluid
                                  /\ lastOp'.new_pos
                                       = IF call.args.random_direction = 0
                                         THEN right ELSE left
                            /\ (ER /\ ~EL) => lastOp'.new_pos = right
                            /\ (EL /\ ~ER) => lastOp'.new_pos = left]_vars

\* C25: when a moving liquid triggers a Preserve interaction, the particle
\* written to the target cell has the kind of the moving liquid, whichever
\* member of the pair is the mover.
C25_PreserveKeepsMover ==
    (lastOp.op = "simulate_cell" /\ IsLiquid(lastOp.particle)
     /\ lastOp.new_pos # lastOp.pos)
        => LET target == get_particle_at(prev, lastOp.new_pos)
           IN  (/\ target # None
                /\ rules_get(water_acid_dir, lastOp.particle, target).interaction_type
                     = "Preserve")
                  => lastOp.new_particle.kind = lastOp.particle.kind

\* C26: process_interactions computes every cell from the snapshot taken
\* before the pass: the new value of cell (x, y) is the rule's result when
\* cells (x, y+1) and (x, y) of the snapshot are both populated and a rule
\* exists for the pair, and the snapshot value of (x, y) otherwise; the top
\* row is unchanged and a result of the pass triggers no further
\* replacement in the same pass.
C26_InteractionsFromSnapshot ==
    (lastOp.op = "process_interactions")
        => \A q \in LocalCoords :
              LET here == get_particle(lastOp.pre, q)
                  above == get_particle(lastOp.pre, <<q[1], q[2] + 1>>)
                  rule == rules_get(water_acid_dir, above, here)
              IN  get_particle(chunks[TestChunk], q)
                    = IF /\ q[2] < CHUNK_SIZE - 1
                         /\ above # None
                         /\ here # None
                         /\ rule # NoRule
                      THEN rule.result
                      ELSE here

\* a pass over water on lava on water: both lower cells became obsidian,
\* the lower one by a rule with the lava that the pass itself replaced
C26_Witness ==
    /\ lastOp.op = "process_interactions"
    /\ get_particle(lastOp.pre, <<5, 0>>) = Water("Still")
    /\ get_particle(lastOp.pre, <<5, 1>>) = Lava("Left")
    /\ get_particle(lastOp.pre, <<5, 2>>) = Water("Still")
    /\ get_particle(chunks[TestChunk], <<5, 0>>) = Obsidian
    /\ get_particle(chunks[TestChunk], <<5, 1>>) = Obsidian
    /\ get_particle(chunks[TestChunk], <<5, 2>>) = Water("Still")

\* C27: an in-bounds set_particle sets dirty and leaves should_simulate as
\* it was, also when the call adds the chunk's first liquid or removes its
\* last one.
C27_SetParticleKeepsFlag ==
    (lastOp.op = "set_particle"
     /\ lastOp.pos[1] < CHUNK_SIZE /\ lastOp.pos[2] < CHUNK_SIZE)
        => /\ chunks[TestChunk].dirty
           /\ chunks[TestChunk].should_simulate = lastOp.pre.should_simulate

\* a set_particle removed the last liquid of a chunk whose flag was set,
\* and the flag is still set
C27_Witness ==
    /\ lastOp.op = "set_particle"
    /\ lastOp.pos[1] < CHUNK_SIZE /\ lastOp.pos[2] < CHUNK_SIZE
    /\ lastOp.pre.should_simulate
    /\ \E q \in DOMAIN lastOp.pre.cells : IsLiquid(lastOp.pre.cells[q])
    /\ \A q \in DOMAIN chunks[TestChunk].cells :
          ~IsLiquid(chunks[TestChunk].cells[q])
    /\ chunks[TestChunk].should_simulate

C29_RollSpecialParticle ==
    (call.fn = "roll_special_particle") =>
        LET d == call.args.depth
            eligible == {all_variants[i] : i \in {j \in DOMAIN all_variants : U32Ge(U32(d), special_min_depth(all_variants[j])) /\ U32Lt(U32(d), special_max_depth(all_variants[j]))}}
        IN  /\ (eligible = {}) => (call.result = None)
            /\ (call.result # None) => (call.result.type = "Special" /\ call.result \in eligible)
            /\ (eligible # {} /\ call.args.roll < call.args.total_weight) =>
                   /\ call.result \in eligible
                   /\ \A p \in eligible : (spawn_chance(p) > 0) =>
                          \E v \in 0..(call.args.total_weight - 1) : roll_special_particle(d, call.args.roll, v) = p

\* two Specials are eligible and the second roll picks the rarer one
C29_Witness ==
    /\ call.fn = "roll_special_particle"
    /\ call.args.depth = 100
    /\ call.args.roll < call.args.total_weight
    /\ call.args.random_val = 2
    /\ call.result = Ruby

\* C30: in world generation a cell written by a Special placement (a gem,
\* an ore centre or an ore vein cell) is never afterwards overwritten by a
\* Common particle, and a vein cell overwrites whatever the cell held
\* before: at every point of the generation each cell that a worker's
\* Special placement has written holds a Special particle.
C30_SpecialNeverUnderCommon ==
    (gen.phase # "none")
        => \A t \in DOMAIN gen.placed : \A pos \in gen.placed[t] :
              GeneratedAt(pos).type = "Special"

\* C31: for a world position inside the map, Map::set_particle_at(pos, p)
\* followed by Map::get_particle_at(pos) returns p and no other cell of any
\* chunk changes; the cell addressed is local (pos.x mod CHUNK_SIZE,
\* pos.y mod CHUNK_SIZE) of chunk (pos.x div CHUNK_SIZE, pos.y div CHUNK_SIZE),
\* so that pos = chunk_pos * CHUNK_SIZE + local_pos; with a position outside
\* the map set_particle_at changes nothing.
C31_SetThenGetAt ==
    [][(edits' = edits + 1 /\ call'.fn = "set_particle_at")
        => LET pos == call'.args.position
               chunk_pos == <<pos[1] \div CHUNK_SIZE, pos[2] \div CHUNK_SIZE>>
               local_pos == <<pos[1] % CHUNK_SIZE, pos[2] % CHUNK_SIZE>>
           IN  IF pos[1] < width /\ pos[2] < height
               THEN /\ get_particle_at(chunks', pos) = call'.args.particle
                    /\ chunk_pos \in DOMAIN chunks
                    /\ get_particle(chunks'[chunk_pos], local_pos) = call'.args.particle
                    /\ chunk_local_to_world(chunk_pos, local_pos) = pos
                    /\ \A c \in (DOMAIN chunks) \ {chunk_pos} : chunks'[c].cells = chunks[c].cells
                    /\ \A q \in LocalCoords \ {local_pos} :
                          get_particle(chunks'[chunk_pos], q) = get_particle(chunks[chunk_pos], q)
               ELSE chunks' = chunks]_vars

\* a liquid set past a chunk border in x over a cell set before
C31_Witness ==
    /\ call.fn = "set_particle_at"
    /\ call.args.position = <<CHUNK_SIZE + 3, 5>>
    /\ edits = 2
    /\ get_particle(chunks[<<1, 0>>], <<3, 5>>) = Lava("Left")
    /\ get_particle(chunks[<<0, 0>>], <<CHUNK_SIZE - 1, 5>>) = Stone

\* C32: after Map::generate(width, height) every chunk stored at
\* map.chunks[cx][cy] has position (cx, cy), and the particle generated for a
\* world position (x, y) is the one get_particle_at((x, y)) returns.
C32_GeneratedChunksInPlace ==
    (gen.phase = "done")
        => /\ \A c \in DOMAIN gen.map.chunks : gen.map.chunks[c].position = c
           /\ \A x \in 0..(gen.map_width - 1), y \in 0..(gen.map_height - 1) :
                 Map_get_particle_at(gen.map, <<x, y>>) = GeneratedAt(<<x, y>>)

\* a chunk that is not dirty has should_simulate exactly when one of its
\* cells holds a Liquid
CleanFlagExact(chunk) ==
    (~chunk.dirty) =>
        (chunk.should_simulate <=> \E q \in DOMAIN chunk.cells : IsLiquid(chunk.cells[q]))

C34_RangesPartitionColumns ==
    (call.fn = "generate_all_data" /\ call.result # <<>>)
        => /\ \A x \in 0..(call.args.map_width - 1) :
                 Cardinality({t \in DOMAIN call.result :
                                 call.result[t].start_x <= x /\ x < call.result[t].end_x}) = 1
           /\ \A t \in DOMAIN call.result :
                 /\ call.result[t].end_x >= call.result[t].start_x
                 /\ ~call.result[t].columns.panic
                 /\ call.result[t].columns.visited = {x \in 0..(call.args.map_width - 1) : call.result[t].start_x <= x /\ x < call.result[t].end_x}

\* C35: every ParticleMove in the cross-chunk queue, and every move about to
\* be inserted, has its target inside the map (x < width, y < height), and
\* every destination calculate_step can compute for a liquid being simulated
\* is inside the map, whatever its random draws.
C35_DestinationsInsideMap ==
    /\ \A t \in DOMAIN interchunk_queue :
          within_bounds(t) /\ within_bounds(interchunk_queue[t].target_pos)
    /\ \A c \in DOMAIN tasks :
          /\ (tasks[c].pending # NoMove) => within_bounds(tasks[c].pending.target_pos)
          /\ (tasks[c].todo # <<>> /\ IsLiquid(tasks[c].chunk.cells[Head(tasks[c].todo)]))
                => \E source \in {chunk_local_to_world(tasks[c].chunk.position, Head(tasks[c].todo))} :
                      \A r \in calculate_step(Context(chunks, tasks[c].chunk, interchunk_queue, tasks[c].new_cells),
                                              tasks[c].chunk.cells[Head(tasks[c].todo)], source[1], source[2]) :
                          within_bounds(r[1])
    /\ (lastOp.op = "simulate_cell") => within_bounds(lastOp.new_pos)

\* a lava in the last column of the map, headed right, stays and turns
C35_Witness ==
    /\ width = CHUNK_SIZE
    /\ lastOp.op = "simulate_cell"
    /\ lastOp.pos = <<CHUNK_SIZE - 1, 1>>
    /\ lastOp.particle = Lava("Right")
    /\ lastOp.new_pos = lastOp.pos
    /\ lastOp.new_particle = Lava("Left")

\* C36: with no interaction-capable pair in the map, Chunk::simulate leaves
\* every Common, Special and Solid particle of the chunk at its cell (none
\* is moved, removed, altered or added), and writes no liquid onto a cell
\* that held a particle in the map's prior state; the one liquid written to
\* an occupied cell is a liquid that stays at its own cell.
C36_SolidsUntouched ==
    (pc = "simulating" /\ NoInteractionPair(prev))
        => \A c \in DOMAIN tasks :
              /\ \A q \in DOMAIN tasks[c].new_cells :
                    IF IsLiquid(tasks[c].new_cells[q])
                    THEN \/ CellAt(tasks[c].chunk.cells, q) = None
                         \/ ParticleEq(CellAt(tasks[c].chunk.cells, q), tasks[c].new_cells[q])
                    ELSE CellAt(tasks[c].chunk.cells, q) = tasks[c].new_cells[q]
              /\ (tasks[c].todo = <<>>)
                    => \A q \in DOMAIN tasks[c].chunk.cells :
                          (~IsLiquid(tasks[c].chunk.cells[q]))
                             => CellAt(tasks[c].new_cells, q) = tasks[c].chunk.cells[q]
              /\ (lastOp.op = "simulate_cell" /\ IsLiquid(lastOp.particle) /\ lastOp.new_pos # lastOp.pos)
                    => get_particle_at(prev, lastOp.new_pos) = None

\* a pass is over in a chunk that holds stones and a liquid that has moved
C36_Witness ==
    /\ pc = "simulating"
    /\ NoInteractionPair(prev)
    /\ \E c \in DOMAIN tasks :
          /\ tasks[c].todo = <<>>
          /\ \E q \in DOMAIN tasks[c].chunk.cells : tasks[c].chunk.cells[q] = Stone
          /\ \E q \in DOMAIN tasks[c].new_cells :
                IsLiquid(tasks[c].new_cells[q]) /\ CellAt(tasks[c].chunk.cells, q) = None

\* C37: the y-coordinate of a liquid never increases: every destination
\* calculate_step can compute for a liquid at (x, y), whatever its random
\* draws, has 0 <= y' <= y, and so has the destination of every step taken.
C37_LiquidNeverRises ==
    /\ (lastOp.op = "simulate_cell" /\ IsLiquid(lastOp.particle))
          => (lastOp.new_pos[2] >= 0 /\ lastOp.new_pos[2] <= lastOp.pos[2])
    /\ \A c \in DOMAIN tasks :
          (tasks[c].todo # <<>> /\ IsLiquid(tasks[c].chunk.cells[Head(tasks[c].todo)]))
             => \E source \in {chunk_local_to_world(tasks[c].chunk.position, Head(tasks[c].todo))} :
                   \A r \in calculate_step(Context(chunks, tasks[c].chunk, interchunk_queue, tasks[c].new_cells),
                                           tasks[c].chunk.cells[Head(tasks[c].todo)], source[1], source[2]) :
                       r[1][2] >= 0 /\ r[1][2] <= source[2]

\* a liquid fell in its column across a chunk border
C37_Witness ==
    /\ lastOp.op = "simulate_cell"
    /\ IsLiquid(lastOp.particle)
    /\ lastOp.new_pos[1] = lastOp.pos[1]
    /\ lastOp.new_pos[2] < CHUNK_SIZE
    /\ lastOp.pos[2] >= CHUNK_SIZE

\* the one particle of the map is the liquid that was set, in row 0
LiquidAtFloor ==
    \E x \in 0..(width - 1) :
        /\ Occupied(chunks) = {<<world_to_chunk(<<x, 0>>), world_to_local(<<x, 0>>)>>}
        /\ ParticleEq(get_particle_at(chunks, <<x, 0>>), call.args.particle)

\* C38: in a map that holds one liquid and has every chunk active, the loop
\* "refresh the dirty active chunks, then simulate the active chunks",
\* repeated fairly, brings the liquid to row 0, across chunk borders too.
C38_LiquidReachesFloor == <>LiquidAtFloor

\* the liquid set two chunk borders above the floor lies in row 0 of its
\* column between two ticks
C38_Witness ==
    /\ pc = "idle"
    /\ call.args.position[2] >= 2 * CHUNK_SIZE
    /\ IsLiquid(get_particle_at(chunks, <<call.args.position[1], 0>>))
    /\ LiquidAtFloor

\* the chunk grid of a map of width x height particles
ChunkGrid == (0..(div_ceil(width, CHUNK_SIZE) - 1)) \X (0..(div_ceil(height, CHUNK_SIZE) - 1))

\* dx^2 + dy^2 <= chunk_range^2 in the integers; a chunk_range of 2^15 or
\* more has a square of 2^30 or more, above every dx^2 + dy^2 met here
WithinChunkRange(dx, dy, chunk_range) ==
    /\ dx <= chunk_range
    /\ dy <= chunk_range
    /\ IF chunk_range >= 32768 /\ dx < 23170 /\ dy < 23170
       THEN TRUE
       ELSE (dx * dx) + (dy * dy) <= chunk_range * chunk_range

\* C39: get_chunks_near(position, range) returns, without duplicates,
\* exactly the coordinates of the chunk grid whose squared distance in
\* chunks from the position's chunk is at most ceil(range / CHUNK_SIZE)
\* squared, and no coordinate outside the grid.
C39_ChunksNearExact ==
    (call.fn = "get_chunks_near" /\ call.result # <<>>)
        => \E r \in {call.result[1]}, center \in {world_vec2_to_chunk(call.args.position)} :
              /\ ~r.panic
              /\ \A i, j \in DOMAIN r.nearby_chunks : r.nearby_chunks[i] = r.nearby_chunks[j] => i = j
              /\ {r.nearby_chunks[i] : i \in DOMAIN r.nearby_chunks}
                    = {c \in ChunkGrid : WithinChunkRange(abs_diff(center[1], c[1]), abs_diff(center[2], c[2]),
                                                          div_ceil(call.args.range, CHUNK_SIZE))}

=============================================================================
